---------------------------- MODULE Spec2Model ----------------------------
(***************************************************************************)
(* Model of the EndCrypt classification-driven encryption service          *)
(* (src/src/services/awsKmsService.ts, class AWSKMSService).               *)
(*                                                                         *)
(* Strings are sequences of one-character strings, so that startsWith,     *)
(* split, base64 and JSON text are computed character by character.        *)
(* Ciphertexts are symbolic: a ciphertext records the transform, the key   *)
(* and the text it protects; the matching key recovers the text.           *)
(***************************************************************************)
EXTENDS Integers, Sequences, FiniteSets, TLC

-----------------------------------------------------------------------------
(* Bounds of the model.                                                     *)

\* longest input string of the stand-alone tokenizer runs
MaxLen == 3
\* number of calls of the public interface that may be started
MaxCalls == 3
\* number of those that may be encrypt calls
MaxEncrypts == 2
\* number of clock ticks
MaxTicks == 2
\* calls that can be awaiting the KMS at the same time
MaxInFlight == 2

-----------------------------------------------------------------------------
(* Characters, bytes and base64 (Buffer.from(s).toString('base64') and      *)
(* Buffer.from(s, 'base64').toString()).                                    *)

Ascii ==
  ("\"" :> 34) @@ ("\\" :> 92) @@ (":" :> 58) @@ ("a" :> 97) @@
  ("n" :> 110) @@ ("u" :> 117) @@ ("l" :> 108) @@ ("T" :> 84) @@
  ("0" :> 48) @@ ("1" :> 49) @@ ("2" :> 50) @@ ("3" :> 51) @@ ("4" :> 52) @@
  ("5" :> 53) @@ ("6" :> 54) @@ ("7" :> 55) @@ ("8" :> 56) @@ ("9" :> 57)

Chr(b) == CHOOSE c \in DOMAIN Ascii : Ascii[c] = b

B64Alphabet ==
  << "A","B","C","D","E","F","G","H","I","J","K","L","M","N","O","P",
     "Q","R","S","T","U","V","W","X","Y","Z","a","b","c","d","e","f",
     "g","h","i","j","k","l","m","n","o","p","q","r","s","t","u","v",
     "w","x","y","z","0","1","2","3","4","5","6","7","8","9","+","/" >>

B64Index(c) == (CHOOSE i \in 1..64 : B64Alphabet[i] = c) - 1

B64Char(i) == B64Alphabet[i + 1]

RECURSIVE B64EncodeBytes(_)
B64EncodeBytes(bs) ==
  IF Len(bs) = 0 THEN << >>
  ELSE IF Len(bs) = 1 THEN
    LET n == bs[1] * 65536
    IN << B64Char(n \div 262144), B64Char((n \div 4096) % 64), "=", "=" >>
  ELSE IF Len(bs) = 2 THEN
    LET n == bs[1] * 65536 + bs[2] * 256
    IN << B64Char(n \div 262144), B64Char((n \div 4096) % 64),
          B64Char((n \div 64) % 64), "=" >>
  ELSE
    LET n == bs[1] * 65536 + bs[2] * 256 + bs[3]
    IN << B64Char(n \div 262144), B64Char((n \div 4096) % 64),
          B64Char((n \div 64) % 64), B64Char(n % 64) >>
       \o B64EncodeBytes(SubSeq(bs, 4, Len(bs)))

\* Buffer.from(data).toString('base64')
ToBase64(s) == B64EncodeBytes([i \in 1..Len(s) |-> Ascii[s[i]]])

\* the base64 digits of a text up to its first '=', other characters skipped
RECURSIVE B64Digits(_)
B64Digits(s) ==
  IF Len(s) = 0 \/ s[1] = "=" THEN << >>
  ELSE IF \E i \in 1..64 : B64Alphabet[i] = s[1]
       THEN << B64Index(s[1]) >> \o B64Digits(Tail(s))
       ELSE B64Digits(Tail(s))

RECURSIVE B64DecodeDigits(_)
B64DecodeDigits(ds) ==
  IF Len(ds) < 2 THEN << >>
  ELSE IF Len(ds) = 2 THEN
    << (ds[1] * 4 + ds[2] \div 16) % 256 >>
  ELSE IF Len(ds) = 3 THEN
    << (ds[1] * 4 + ds[2] \div 16) % 256,
       ((ds[2] % 16) * 16 + ds[3] \div 4) % 256 >>
  ELSE
    << (ds[1] * 4 + ds[2] \div 16) % 256,
       ((ds[2] % 16) * 16 + ds[3] \div 4) % 256,
       ((ds[3] % 4) * 64 + ds[4]) % 256 >>
    \o B64DecodeDigits(SubSeq(ds, 5, Len(ds)))

\* Buffer.from(blob, 'base64').toString()
FromBase64(s) ==
  LET bs == B64DecodeDigits(B64Digits(s))
  IN [i \in 1..Len(bs) |-> Chr(bs[i])]

-----------------------------------------------------------------------------
(* JSON text of a payload (JSON.stringify) and its reading (JSON.parse).    *)
(* Payloads are null, non-negative integers, strings, an object with a     *)
(* cycle, which JSON.stringify rejects, and undefined, for which            *)
(* JSON.stringify returns undefined and no string.                          *)

JNull == [t |-> "null", n |-> 0, s |-> << >>]
JNum(k) == [t |-> "number", n |-> k, s |-> << >>]
JStr(x) == [t |-> "string", n |-> 0, s |-> x]
JCircular == [t |-> "circular", n |-> 0, s |-> << >>]
JUndefined == [t |-> "undefined", n |-> 0, s |-> << >>]

RECURSIVE Digits(_)
Digits(k) ==
  IF k < 10 THEN << Chr(48 + k) >>
  ELSE Digits(k \div 10) \o << Chr(48 + (k % 10)) >>

RECURSIVE Escape(_)
Escape(x) ==
  IF Len(x) = 0 THEN << >>
  ELSE IF x[1] \in {"\"", "\\"} THEN << "\\", x[1] >> \o Escape(Tail(x))
  ELSE << x[1] >> \o Escape(Tail(x))

\* JSON.stringify(data): ok = FALSE when it throws, defined = FALSE when it
\* returns undefined
JSONstringify(p) ==
  CASE p.t = "null" ->
         [ok |-> TRUE, defined |-> TRUE, text |-> << "n", "u", "l", "l" >>]
    [] p.t = "number" -> [ok |-> TRUE, defined |-> TRUE, text |-> Digits(p.n)]
    [] p.t = "string" ->
         [ok |-> TRUE, defined |-> TRUE,
          text |-> << "\"" >> \o Escape(p.s) \o << "\"" >>]
    [] p.t = "undefined" -> [ok |-> TRUE, defined |-> FALSE, text |-> << >>]
    [] OTHER -> [ok |-> FALSE, defined |-> FALSE, text |-> << >>]

IsDigit(c) == c \in {"0", "1", "2", "3", "4", "5", "6", "7", "8", "9"}

RECURSIVE NumberOf(_)
NumberOf(x) ==
  IF Len(x) = 0 THEN 0
  ELSE NumberOf(SubSeq(x, 1, Len(x) - 1)) * 10 + (Ascii[x[Len(x)]] - 48)

\* the characters of a JSON string body; ok = FALSE on a bare quote or a
\* dangling or unknown escape
RECURSIVE Unescape(_)
Unescape(x) ==
  IF Len(x) = 0 THEN [ok |-> TRUE, s |-> << >>]
  ELSE IF x[1] = "\"" THEN [ok |-> FALSE, s |-> << >>]
  ELSE IF x[1] = "\\" THEN
    IF Len(x) >= 2 /\ x[2] \in {"\"", "\\"}
    THEN LET r == Unescape(SubSeq(x, 3, Len(x)))
         IN [ok |-> r.ok, s |-> << x[2] >> \o r.s]
    ELSE [ok |-> FALSE, s |-> << >>]
  ELSE LET r == Unescape(Tail(x))
       IN [ok |-> r.ok, s |-> << x[1] >> \o r.s]

\* JSON.parse(text): ok = FALSE when it throws a SyntaxError
JSONparse(x) ==
  IF x = << "n", "u", "l", "l" >> THEN [ok |-> TRUE, value |-> JNull]
  ELSE IF Len(x) >= 1 /\ (\A i \in 1..Len(x) : IsDigit(x[i]))
          /\ (Len(x) = 1 \/ x[1] # "0")
       THEN [ok |-> TRUE, value |-> JNum(NumberOf(x))]
  ELSE IF Len(x) >= 2 /\ x[1] = "\"" /\ x[Len(x)] = "\""
       THEN LET r == Unescape(SubSeq(x, 2, Len(x) - 1))
            IN [ok |-> r.ok, value |-> JStr(r.s)]
  ELSE [ok |-> FALSE, value |-> JNull]

-----------------------------------------------------------------------------
(* Tokenizer.                                                               *)

TokenTag == << "T", "O", "K", "E", "N", ":" >>

\* values crypto.randomUUID() can return (hex digits and dashes only)
UUIDs == { << "4", "a", "-", "9" >> }

\* tokenizeData with the UUID it drew
tokenizeData(data, token) == TokenTag \o token \o << ":" >> \o ToBase64(data)

\* tokenizedData.startsWith('TOKEN:')
StartsWithTag(x) == Len(x) >= Len(TokenTag) /\ SubSeq(x, 1, Len(TokenTag)) = TokenTag

\* tokenizedData.split(':')
RECURSIVE Split(_)
Split(x) ==
  IF \A i \in 1..Len(x) : x[i] # ":" THEN << x >>
  ELSE LET i == CHOOSE j \in 1..Len(x) :
                  x[j] = ":" /\ \A k \in 1..(j - 1) : x[k] # ":"
       IN << SubSeq(x, 1, i - 1) >> \o Split(SubSeq(x, i + 1, Len(x)))

detokenizeData(tokenizedData) ==
  IF StartsWithTag(tokenizedData)
  THEN LET parts == Split(tokenizedData)
       IN IF Len(parts) >= 3 /\ parts[3] # << >>
          THEN FromBase64(parts[3])
          ELSE tokenizedData
  ELSE tokenizedData

-----------------------------------------------------------------------------
(* Configuration and data model.                                            *)

\* this.cacheTimeout, in milliseconds
cacheTimeout == 15 * 60 * 1000

\* the clock advances in steps of half the cache timeout
TickMs == cacheTimeout \div 2

\* this.customerMasterKeyId (ENDCRYPT_KMS_CONFIG.keyId)
customerMasterKeyId == "5e239a00-de10-43f1-b1df-8104ab293fbe"

\* ENCRYPTION_CONFIG.encryptionContext
EncryptionContext ==
  [application |-> "endcrypt-financial", environment |-> "development",
   version |-> "1.0.0", keyAlias |-> "EndCrypt", region |-> "eu-north-1"]

NoContext ==
  [application |-> "", environment |-> "", version |-> "", keyAlias |-> "",
   region |-> ""]

\* enum DataClassification
PUBLIC == "public"
INTERNAL == "internal"
CONFIDENTIAL == "confidential"
RESTRICTED == "restricted"
DataClassification == {PUBLIC, INTERNAL, CONFIDENTIAL, RESTRICTED}

\* what a caller can pass as classification: the enum and a value outside it
Classifications == DataClassification \cup {"invalid"}

\* payloads a caller encrypts
Payloads == {JNum(7), JStr(<< "a", "\"" >>), JCircular}

\* faulty variant: every key is filed under the same id
KeyUUID_fixed(i) == "uuid-1"

\* the i-th value crypto.randomUUID() returns for a key id, and the i-th key
\* material the KMS generates: fresh at every call
KeyUUID(i) == << "uuid-1", "uuid-2", "uuid-3", "uuid-4", "uuid-5", "uuid-6" >>[i]
KeyBytes(i) == << "dek-1", "dek-2", "dek-3", "dek-4", "dek-5", "dek-6" >>[i]
Wrapped(i) == << "wrapped-1", "wrapped-2", "wrapped-3", "wrapped-4", "wrapped-5", "wrapped-6" >>[i]
AllKeyBytes == {KeyBytes(i) : i \in 1..6}

\* values crypto.randomBytes(16).toString('hex') can return
IVs == {"3f9ac07e"}

\* interface DataEncryptionKey
NoKey == [keyId |-> "", plaintextKey |-> "", encryptedKey |-> "",
          createdAt |-> 0, expiresAt |-> 0]

\* a ciphertext or encoded text: the transform, the key it was made under and
\* the text it carries.  hexcase is the case of the hex digits a-f of the
\* blob string: cipher.update(.., 'hex') writes them in lower case, and the
\* 'hex' reading of decipher.update takes either case for the same bytes.
Blob(enc, cmk, ctx, dek, body) ==
  [enc |-> enc, cmk |-> cmk, ctx |-> ctx, dek |-> dek, body |-> body,
   hexcase |-> "lower"]
NoBlob == Blob("", "", NoContext, "", << >>)

\* interface EncryptedData; "undefined" stands for an absent optional field
NoEnvelope ==
  [encryptedBlob |-> NoBlob, dataKeyId |-> "", encryptionContext |-> NoContext,
   algorithm |-> "", classification |-> "", timestamp |-> 0,
   iv |-> "undefined", authTag |-> "undefined"]

\* outcomes of a remote KMS call: success, a transient failure (network,
\* throttling), a permanent one (access denied, key not found), and for
\* generateDataKey and describeKey a response that lacks part of its result
KmsFailures == {"ThrottlingException", "AccessDeniedException"}
KmsOutcomes(awaiting) ==
  {"ok"} \cup KmsFailures
  \cup (IF awaiting \in {"kms.generateDataKey", "kms.describeKey"}
        THEN {"incomplete"} ELSE {})

\* a result of a step of the service: a value or a thrown error
Ok(field, v) == [ok |-> TRUE, error |-> ""] @@ (field :> v)
Fail(field, v, msg) == [ok |-> FALSE, error |-> msg] @@ (field :> v)

-----------------------------------------------------------------------------
(* The strategies of AWSKMSService.  Every operator takes the values the    *)
(* code draws from its environment as arguments: the outcome kms of its     *)
(* remote call, the clock t, the random token and iv, and the number i of   *)
(* the key being issued.                                                    *)

encryptPublicData(data, timestamp) ==
  [encryptedBlob |-> Blob("base64", "", NoContext, "", ToBase64(data)),
   dataKeyId |-> "public",
   encryptionContext |-> EncryptionContext,
   algorithm |-> "base64",
   classification |-> PUBLIC,
   timestamp |-> timestamp,
   iv |-> "undefined", authTag |-> "undefined"]

\* faulty variant: a failed kms.encrypt falls back to the PUBLIC encoding
encryptInternalData_fallback(data, timestamp, kms) ==
  IF kms = "ok"
  THEN Ok("env",
          [encryptedBlob |-> Blob("kms", customerMasterKeyId, EncryptionContext, "", data),
           dataKeyId |-> customerMasterKeyId,
           encryptionContext |-> EncryptionContext,
           algorithm |-> "aws-kms",
           classification |-> INTERNAL,
           timestamp |-> timestamp,
           iv |-> "undefined", authTag |-> "undefined"])
  ELSE Ok("env", encryptPublicData(data, timestamp))

\* kms.encrypt rejects with the KMS error, which nothing here catches
encryptInternalData(data, timestamp, kms) ==
  IF kms = "ok"
  THEN Ok("env",
          [encryptedBlob |-> Blob("kms", customerMasterKeyId, EncryptionContext, "", data),
           dataKeyId |-> customerMasterKeyId,
           encryptionContext |-> EncryptionContext,
           algorithm |-> "aws-kms",
           classification |-> INTERNAL,
           timestamp |-> timestamp,
           iv |-> "undefined", authTag |-> "undefined"])
  ELSE Fail("env", NoEnvelope, kms)

\* faulty variant: a response that lacks the wrapped key is registered too
generateDataKey_partial(kms, i, t) ==
  IF kms \in {"ok", "incomplete"}
  THEN Ok("dek", [keyId |-> KeyUUID(i), plaintextKey |-> KeyBytes(i),
                  encryptedKey |-> IF kms = "ok" THEN Wrapped(i) ELSE "",
                  createdAt |-> t, expiresAt |-> t + cacheTimeout])
  ELSE Fail("dek", NoKey, "Failed to generate data encryption key")

\* faulty variant: the error for a response without the wrapped key quotes
\* the plaintext key the response did bring
generateDataKey_quoteKey(kms, i, t) ==
  IF kms = "ok"
  THEN Ok("dek", [keyId |-> KeyUUID(i), plaintextKey |-> KeyBytes(i),
                  encryptedKey |-> Wrapped(i),
                  createdAt |-> t, expiresAt |-> t + cacheTimeout])
  ELSE Fail("dek", NoKey, IF kms = "incomplete" THEN KeyBytes(i)
                          ELSE "Failed to generate data encryption key")

\* generateDataKey: the key it registers, or the error it throws
generateDataKey(kms, i, t) ==
  IF kms = "ok"
  THEN Ok("dek", [keyId |-> KeyUUID(i), plaintextKey |-> KeyBytes(i),
                  encryptedKey |-> Wrapped(i),
                  createdAt |-> t, expiresAt |-> t + cacheTimeout])
  ELSE Fail("dek", NoKey, "Failed to generate data encryption key")

\* faulty variant: the tag is taken from ENCRYPTION_CONFIG.algorithm
encryptConfidentialData_configTag(data, timestamp, dataKey, iv) ==
  [encryptedBlob |-> Blob("aes", "", NoContext, dataKey.plaintextKey, data),
   dataKeyId |-> dataKey.keyId,
   encryptionContext |-> EncryptionContext,
   algorithm |-> "aes-256-gcm",
   classification |-> CONFIDENTIAL,
   timestamp |-> timestamp,
   iv |-> iv, authTag |-> "sha256-hmac"]

\* faulty variant: the envelope carries the key itself
encryptConfidentialData_keyInTag(data, timestamp, dataKey, iv) ==
  [encryptedBlob |-> Blob("aes", "", NoContext, dataKey.plaintextKey, data),
   dataKeyId |-> dataKey.keyId,
   encryptionContext |-> EncryptionContext,
   algorithm |-> "aes-256-cbc",
   classification |-> CONFIDENTIAL,
   timestamp |-> timestamp,
   iv |-> iv, authTag |-> dataKey.plaintextKey]

encryptConfidentialData(data, timestamp, dataKey, iv) ==
  [encryptedBlob |-> Blob("aes", "", NoContext, dataKey.plaintextKey, data),
   dataKeyId |-> dataKey.keyId,
   encryptionContext |-> EncryptionContext,
   algorithm |-> "aes-256-cbc",
   classification |-> CONFIDENTIAL,
   timestamp |-> timestamp,
   iv |-> iv, authTag |-> "sha256-hmac"]

encryptRestrictedData(data, timestamp, token, dataKey, iv) ==
  encryptConfidentialData(tokenizeData(data, token), timestamp, dataKey, iv)

\* encrypt(data, classification): the envelope or the error the caller gets,
\* the error first raised (cause), and the key issued on the way.  When
\* JSON.stringify returned undefined, Buffer.from (PUBLIC, INTERNAL and the
\* tokenizer of RESTRICTED) and cipher.update (CONFIDENTIAL, after the data
\* key was generated) throw a TypeError, which rejects the promise encrypt
\* returned.
encrypt(data, classification, timestamp, token, kms, i, t, iv) ==
  LET s == JSONstringify(data)
      none == [ok |-> FALSE, env |-> NoEnvelope, dek |-> NoKey, error |-> "", cause |-> ""]
  IN IF ~s.ok
     THEN [none EXCEPT !.error = "Failed to encrypt data",
                       !.cause = "Converting circular structure to JSON"]
     ELSE IF ~s.defined /\ classification \in DataClassification
     THEN IF classification = CONFIDENTIAL
          THEN LET k == generateDataKey(kms, i, t)
               IN IF ~k.ok
                  THEN [none EXCEPT !.error = k.error, !.cause = kms]
                  ELSE [none EXCEPT !.dek = k.dek, !.error = "ERR_INVALID_ARG_TYPE",
                                    !.cause = "ERR_INVALID_ARG_TYPE"]
          ELSE [none EXCEPT !.error = "ERR_INVALID_ARG_TYPE",
                            !.cause = "ERR_INVALID_ARG_TYPE"]
     ELSE CASE classification = PUBLIC ->
                 [none EXCEPT !.ok = TRUE, !.env = encryptPublicData(s.text, timestamp)]
            [] classification = INTERNAL ->
                 LET r == encryptInternalData(s.text, timestamp, kms)
                 IN [none EXCEPT !.ok = r.ok, !.env = r.env,
                                 !.error = r.error, !.cause = r.error]
            [] classification \in {CONFIDENTIAL, RESTRICTED} ->
                 LET k == generateDataKey(kms, i, t)
                 IN IF ~k.ok
                    THEN [none EXCEPT !.error = k.error, !.cause = kms]
                    ELSE [none EXCEPT
                            !.ok = TRUE, !.dek = k.dek,
                            !.env = IF classification = CONFIDENTIAL
                                    THEN encryptConfidentialData(s.text, timestamp, k.dek, iv)
                                    ELSE encryptRestrictedData(s.text, timestamp, token, k.dek, iv)]
            [] OTHER ->
                 [none EXCEPT !.error = "Failed to encrypt data",
                              !.cause = "Unsupported data classification"]

\* what Buffer.from(.., 'base64') or a decipher makes of a text that is not
\* of its own format
Garbled == << "\\" >>

decryptPublicData(encryptedBlob) ==
  IF encryptedBlob.enc = "base64" THEN FromBase64(encryptedBlob.body) ELSE Garbled

\* kms.decrypt under ENCRYPTION_CONFIG.encryptionContext
decryptInternalData(encryptedBlob, dataKeyId, kms) ==
  IF kms # "ok" THEN Fail("text", << >>, kms)
  ELSE IF encryptedBlob.enc = "kms" /\ encryptedBlob.ctx = EncryptionContext
       THEN Ok("text", encryptedBlob.body)
       ELSE Fail("text", << >>, "InvalidCiphertextException")

\* faulty variant: the expiry of a cached key is not looked at
getOrDecryptDataKey_noExpiry(cache, keyId, t) ==
  IF keyId \in DOMAIN cache
  THEN Ok("dek", cache[keyId])
  ELSE Fail("dek", NoKey, "Data key decryption not implemented")

\* faulty variant: on a miss any other live cached key is handed out
getOrDecryptDataKey_anyKey(cache, keyId, t) ==
  IF keyId \in DOMAIN cache /\ cache[keyId].expiresAt > t
  THEN Ok("dek", cache[keyId])
  ELSE IF \E k \in DOMAIN cache : cache[k].expiresAt > t
       THEN Ok("dek", cache[CHOOSE k \in DOMAIN cache : cache[k].expiresAt > t])
       ELSE Fail("dek", NoKey, "Data key decryption not implemented")

getOrDecryptDataKey(cache, keyId, t) ==
  IF keyId \in DOMAIN cache /\ cache[keyId].expiresAt > t
  THEN Ok("dek", cache[keyId])
  ELSE Fail("dek", NoKey, "Data key decryption not implemented")

\* faulty variant: the authTag of the envelope is compared with the tag
\* encryptConfidentialData writes, and an envelope without iv is turned down
decryptConfidentialData_checkTag(cache, encryptedBlob, dataKeyId, iv, authTag, t) ==
  LET k == getOrDecryptDataKey(cache, dataKeyId, t)
  IN IF ~k.ok THEN Fail("text", << >>, k.error)
     ELSE IF authTag # "sha256-hmac" \/ iv = "undefined"
          THEN Fail("text", << >>, "Unsupported state or unable to authenticate data")
     ELSE IF encryptedBlob.enc = "aes" /\ encryptedBlob.dek = k.dek.plaintextKey
          THEN Ok("text", encryptedBlob.body)
          ELSE Fail("text", << >>, "bad decrypt")

decryptConfidentialData(cache, encryptedBlob, dataKeyId, iv, authTag, t) ==
  LET k == getOrDecryptDataKey(cache, dataKeyId, t)
  IN IF ~k.ok THEN Fail("text", << >>, k.error)
     ELSE IF encryptedBlob.enc = "aes" /\ encryptedBlob.dek = k.dek.plaintextKey
          THEN Ok("text", encryptedBlob.body)
          ELSE Fail("text", << >>, "bad decrypt")

decryptRestrictedData(cache, encryptedBlob, dataKeyId, iv, authTag, t) ==
  LET r == decryptConfidentialData(cache, encryptedBlob, dataKeyId, iv, authTag, t)
  IN IF r.ok THEN Ok("text", detokenizeData(r.text)) ELSE r

\* faulty variant: the tier is read off the algorithm tag
Dispatch_byAlgorithm(encryptedData) ==
  CASE encryptedData.algorithm = "base64" -> PUBLIC
    [] encryptedData.algorithm = "aws-kms" -> INTERNAL
    [] encryptedData.algorithm = "aes-256-cbc" -> CONFIDENTIAL
    [] OTHER -> encryptedData.classification

\* switch (classification) of decrypt: the value the cases are matched with
Dispatch(encryptedData) == encryptedData.classification

\* decrypt(encryptedData): the payload or the error the caller gets, the
\* error first raised (cause), the cached key the strategy read, and the
\* case of the switch that ran
decrypt(cache, encryptedData, kms, t) ==
  LET blob == encryptedData.encryptedBlob
      id == encryptedData.dataKeyId
      c == Dispatch(encryptedData)
      strategy == IF c \in DataClassification THEN c ELSE "default"
      r == CASE c = PUBLIC -> Ok("text", decryptPublicData(blob))
             [] c = INTERNAL -> decryptInternalData(blob, id, kms)
             [] c = CONFIDENTIAL ->
                  decryptConfidentialData(cache, blob, id, encryptedData.iv,
                                          encryptedData.authTag, t)
             [] c = RESTRICTED ->
                  decryptRestrictedData(cache, blob, id, encryptedData.iv,
                                        encryptedData.authTag, t)
             [] OTHER -> Fail("text", << >>, "Unsupported data classification")
      j == JSONparse(r.text)
      used == IF c \in {CONFIDENTIAL, RESTRICTED}
              THEN getOrDecryptDataKey(cache, id, t).dek ELSE NoKey
  IN IF ~r.ok
     THEN [ok |-> FALSE, value |-> JNull, used |-> used, strategy |-> strategy,
           error |-> "Failed to decrypt data", cause |-> r.error]
     ELSE IF ~j.ok
     THEN [ok |-> FALSE, value |-> JNull, used |-> used, strategy |-> strategy,
           error |-> "Failed to decrypt data", cause |-> "SyntaxError"]
     ELSE [ok |-> TRUE, value |-> j.value, used |-> used, strategy |-> strategy,
           error |-> "", cause |-> ""]

\* rotateKeys and getKeyMetadata: the error they throw, "" when none
rotateKeys(kms) == IF kms = "ok" THEN "" ELSE "Failed to rotate encryption keys"
getKeyMetadata(kms) == IF kms = "ok" THEN "" ELSE "Failed to retrieve key metadata"

-----------------------------------------------------------------------------
(* The mock backend (src/mock/server.js): its constants and pure helpers.   *)

\* requests the server may receive in a run
MaxServed == 7
\* steps of the server clock, each of half the lockout duration
MaxSrvTicks == 3
\* login requests that can be awaiting bcrypt.compare at the same time
MaxComparing == 2

MAX_LOGIN_ATTEMPTS == 5
LOCKOUT_DURATION == 15 * 60 * 1000

\* email.toLowerCase() on the letters used here, and .trim()
ToLowerCase(x) ==
  [i \in 1..Len(x) |->
     CASE x[i] = "A" -> "a" [] x[i] = "D" -> "d" [] x[i] = "M" -> "m"
       [] x[i] = "I" -> "i" [] x[i] = "N" -> "n" [] OTHER -> x[i]]

RECURSIVE Trim(_)
Trim(x) ==
  IF Len(x) > 0 /\ x[1] = " " THEN Trim(Tail(x))
  ELSE IF Len(x) > 0 /\ x[Len(x)] = " " THEN Trim(SubSeq(x, 1, Len(x) - 1))
  ELSE x

normalizedEmail(email) == Trim(ToLowerCase(email))

adminEmail == << "a", "d", "m", "i", "n", "@", "e", "n", "d", "c", "r", "y", "p", "t", ".", "i", "n" >>
adminPassword == "admin123"
userEmail == << "b", "@", "x", ".", "i", "o" >>
userPassword == "Passw0rd!"

\* ways a client can write the admin's address
AdminSpellings == {adminEmail, << " ", "A", "D", "M", "I", "N" >> \o SubSeq(adminEmail, 6, 17)}

\* bcrypt.hash and bcrypt.compare
Hash(password) == << "bcrypt", password >>
Compare(password, hash) == hash = Hash(password)

\* the payload of a JWT the server signed, and what a request can carry in
\* its Authorization header: nothing, a token the server does not accept,
\* a token it issued
Token(userData) ==
  [present |-> TRUE, signed |-> TRUE, userId |-> userData.id, email |-> userData.email]
NoToken == [present |-> FALSE, signed |-> FALSE, userId |-> "", email |-> << >>]
BadToken == [present |-> TRUE, signed |-> FALSE, userId |-> "admin-user-001", email |-> adminEmail]

\* authenticateToken: the status it answers with, 0 when it calls next()
authenticateToken(authorization) ==
  IF ~authorization.present THEN 401
  ELSE IF ~authorization.signed THEN 403
  ELSE 0

\* mockEncrypt and mockDecrypt
mockEncrypt(data) == ToBase64(JSONstringify(data).text)
mockDecrypt(encryptedData) == JSONparse(FromBase64(encryptedData))

\* the data of the sample records made for the admin at start
SampleData == << JNum(5), JNum(12), JNum(8) >>
SampleId(i) == << "admin-record-1", "admin-record-2", "admin-record-3" >>[i]

\* generateId() for the k-th record stored and for the k-th user registered
RecordId(k) == << "rec-1", "rec-2", "rec-3", "rec-4", "rec-5", "rec-6", "rec-7", "rec-8", "rec-9" >>[k]
UserId(k) == << "usr-1", "usr-2", "usr-3", "usr-4", "usr-5", "usr-6", "usr-7", "usr-8", "usr-9" >>[k]

\* auditLogs.push: the log as the number of its entries of each kind
createAuditLog(logs, action, userId) ==
  LET e == [action |-> action, userId |-> userId]
  IN IF e \in DOMAIN logs THEN [logs EXCEPT ![e] = @ + 1] ELSE (e :> 1) @@ logs

isAccountLocked(attempts, email, t) ==
  /\ email \in DOMAIN attempts
  /\ attempts[email].count >= MAX_LOGIN_ATTEMPTS
  /\ (t - attempts[email].lastAttempt) < LOCKOUT_DURATION

recordFailedLogin(attempts, email, t) ==
  LET a == IF email \in DOMAIN attempts THEN attempts[email]
           ELSE [count |-> 0, lastAttempt |-> 0]
  IN (email :> [count |-> a.count + 1, lastAttempt |-> t]) @@ attempts

clearFailedLogins(attempts, email) ==
  [e \in DOMAIN attempts \ {email} |-> attempts[e]]

-----------------------------------------------------------------------------
(* State.                                                                   *)

VARIABLES
  now,        \* the clock (Date.now()), in milliseconds
  keyCache,   \* this.keyCache: key id -> DataEncryptionKey
  timers,     \* pending setTimeout callbacks: [keyId, due]
  issued,     \* number of data keys registered so far
  issueLog,   \* history: key id -> the time its key was registered
  calls,      \* calls of the public interface awaiting their KMS response
  started,    \* number of calls started so far
  encrypts,   \* number of encrypt calls started so far
  held,       \* envelopes callers received, each with the payload and the
              \* classification it was requested for
  last,       \* the call that completed last, with its outcome
  tkStage,    \* stand-alone tokenizer run: stage, input, token, output
  tkInput,
  tkToken,
  tkOutput,
  authToken,        \* auth store: token ("null", or a token, live or expired)
  authUser,         \* auth store: user
  isAuthenticated,  \* auth store: isAuthenticated
  refreshTimeoutId, \* a token refresh is scheduled (setTimeout pending)
  href,             \* window.location.href
  requests,         \* requests made through the API client, oldest first
  users,             \* users: email -> user record, with the password hash
  loginAttempts,     \* loginAttempts: email -> [count, lastAttempt]
  encryptedRecords,  \* encryptedRecords: id -> record
  auditLogs,         \* auditLogs
  clock,             \* Date.now() of the server
  logins,            \* login requests awaiting bcrypt.compare, oldest first
  served,            \* number of requests received so far
  request,           \* the request received last
  response           \* the response sent last

svcVars == << now, keyCache, timers, issued, issueLog, calls, started, encrypts, held, last >>
tkVars == << tkStage, tkInput, tkToken, tkOutput >>
clVars == << authToken, authUser, isAuthenticated, refreshTimeoutId, href, requests >>
srvVars == << users, loginAttempts, encryptedRecords, auditLogs, clock, logins,
              served, request, response >>
vars == << now, keyCache, timers, issued, issueLog, calls, started, encrypts, held, last,
           tkStage, tkInput, tkToken, tkOutput,
           authToken, authUser, isAuthenticated, refreshTimeoutId, href, requests,
           users, loginAttempts, encryptedRecords, auditLogs, clock, logins,
           served, request, response >>

Idle ==
  [op |-> "idle", tier |-> "", payload |-> JNull, token |-> << >>, ts |-> 0,
   env |-> NoEnvelope, mutation |-> "none", awaiting |-> "", abandoned |-> FALSE]

NoCall ==
  [seq |-> 0, op |-> "none", tier |-> "", payload |-> JNull, mutation |-> "none",
   env |-> NoEnvelope, ok |-> FALSE, value |-> JNull, dek |-> NoKey,
   used |-> NoKey, resident |-> FALSE, error |-> "", cause |-> "",
   kms |-> "none", at |-> 0, registered |-> "", abandoned |-> FALSE,
   strategy |-> ""]

Slots == 1..MaxInFlight
FreeSlots == {i \in Slots : calls[i].op = "idle"}
FirstFree == CHOOSE i \in FreeSlots : \A j \in FreeSlots : i <= j

\* faulty variant: the key is cached and no removal is scheduled
Register_noTimer(dek) ==
  /\ keyCache' = (dek.keyId :> dek) @@ keyCache
  /\ timers' = timers
  /\ issued' = issued + 1
  /\ issueLog' = (dek.keyId :> now) @@ issueLog

\* this.keyCache.set(keyId, dataKey) and setTimeout(.., this.cacheTimeout)
Register(dek) ==
  /\ keyCache' = (dek.keyId :> dek) @@ keyCache
  /\ timers' = timers \cup {[keyId |-> dek.keyId, due |-> now + cacheTimeout]}
  /\ issued' = issued + 1
  /\ issueLog' = (dek.keyId :> now) @@ issueLog

\* the ways a caller can alter an envelope it holds before it hands it back
Mutations == {"none", "context", "relabel"}

\* changes of the blob of an aes-256-cbc envelope.  decryptConfidentialData
\* never reads authTag and the cipher has no integrity check of its own: an
\* altered ciphertext deciphers under the same key to a padding error
\* ("flip-pad"), to a text that is not JSON ("flip-junk") or to another JSON
\* text ("flip-text"); "recase" writes hex digits of the blob in upper case.
BlobTampers == {"recase", "flip-pad", "flip-junk", "flip-text"}

\* further changes: another tier's algorithm tag, another dataKeyId, a blob
\* of another tier's form, a classification outside the enum
EnvelopeMutations ==
  Mutations \cup BlobTampers \cup {"algorithm", "keyId", "shape", "unlabel"}

Applies(h, m) ==
  /\ m = "relabel" => h.env.classification # h.tier
  /\ m \in BlobTampers => h.env.encryptedBlob.enc = "aes"

Mutate(h, m) ==
  LET e == h.env
      b == e.encryptedBlob
  IN CASE m = "context" -> [e EXCEPT !.encryptionContext.version = "2.0.0"]
       [] m = "relabel" -> [e EXCEPT !.classification = h.tier]
       [] m = "recase" -> [e EXCEPT !.encryptedBlob.hexcase = "upper"]
       [] m = "flip-pad" -> [e EXCEPT !.encryptedBlob.dek = "damaged"]
       [] m = "flip-junk" -> [e EXCEPT !.encryptedBlob.body = Garbled]
       [] m = "flip-text" ->
            [e EXCEPT !.encryptedBlob.body = IF b.body = << "7" >> THEN << "5" >>
                                             ELSE << "7" >>]
       [] m = "algorithm" ->
            [e EXCEPT !.algorithm = IF e.algorithm = "base64" THEN "aes-256-cbc"
                                    ELSE "base64"]
       [] m = "keyId" ->
            [e EXCEPT !.dataKeyId = IF e.dataKeyId = "public" THEN customerMasterKeyId
                                    ELSE "public"]
       [] m = "shape" ->
            [e EXCEPT !.encryptedBlob =
               IF b.enc = "base64"
               THEN Blob("kms", customerMasterKeyId, EncryptionContext, "", b.body)
               ELSE Blob("base64", "", NoContext, "", ToBase64(<< "7" >>))]
       [] m = "unlabel" -> [e EXCEPT !.classification = "invalid"]
       [] OTHER -> e

SvcInit ==
  /\ now = 0
  /\ keyCache = << >>
  /\ timers = {}
  /\ issued = 0
  /\ issueLog = << >>
  /\ calls = [i \in Slots |-> Idle]
  /\ started = 0
  /\ encrypts = 0
  /\ held = {}
  /\ last = NoCall

TkIdle ==
  /\ tkStage = "off"
  /\ tkInput = << >>
  /\ tkToken = << >>
  /\ tkOutput = << >>

\* the auth store as created (authStore.tsx l.106-111), the page of the
\* application open, no request made
ClInit ==
  /\ authToken = "null"
  /\ authUser = "null"
  /\ isAuthenticated = FALSE
  /\ refreshTimeoutId = FALSE
  /\ href = "/"
  /\ requests = << >>

NoRequest == [op |-> "none", email |-> << >>, password |-> "", authorization |-> NoToken, id |-> ""]
NoResponse ==
  [n |-> 0, op |-> "none", status |-> 0, email |-> << >>, password |-> "",
   authorization |-> NoToken, id |-> "", token |-> NoToken, content |-> JUndefined]

\* the stores once app.listen's callback has run: the admin user and the
\* sample records and log entries made for it
SrvInit ==
  /\ users = (adminEmail :>
                [id |-> "admin-user-001", email |-> adminEmail,
                 password |-> Hash(adminPassword), isActive |-> TRUE, loginCount |-> 0])
  /\ loginAttempts = << >>
  /\ encryptedRecords =
       [id \in {SampleId(i) : i \in 1..3} |->
          LET i == CHOOSE j \in 1..3 : SampleId(j) = id
          IN [id |-> id, userId |-> "admin-user-001",
              encryptedData |-> mockEncrypt(SampleData[i])]]
  /\ auditLogs = ([action |-> "data_encrypt", userId |-> "admin-user-001"] :> 3)
                 @@ ([action |-> "admin_account_created", userId |-> "admin-user-001"] :> 1)
  /\ clock = 0
  /\ logins = << >>
  /\ served = 0
  /\ request = NoRequest
  /\ response = NoResponse

Init == SvcInit /\ TkIdle /\ ClInit /\ SrvInit

-----------------------------------------------------------------------------
(* Calls of the public interface.  A call runs to its remote KMS call in    *)
(* one step and from the response to its end in another; a call that makes  *)
(* no remote call is one step.                                              *)

\* faulty variant: the PUBLIC tier asks the KMS for a data key as well
IsRemote_public(data, classification) ==
  JSONstringify(data).ok /\ classification \in DataClassification

IsRemote(data, classification) ==
  /\ JSONstringify(data).ok
  /\ IF JSONstringify(data).defined
     THEN classification \in {INTERNAL, CONFIDENTIAL, RESTRICTED}
     ELSE classification = CONFIDENTIAL

Encrypt(data, classification, token) ==
  /\ started < MaxCalls
  /\ encrypts < MaxEncrypts
  /\ started' = started + 1
  /\ encrypts' = encrypts + 1
  /\ IF IsRemote(data, classification)
     THEN /\ FreeSlots # {}
          /\ calls' = [calls EXCEPT ![FirstFree] =
                         [Idle EXCEPT !.op = "encrypt", !.tier = classification,
                                      !.payload = data, !.token = token, !.ts = now,
                                      !.awaiting = IF classification = INTERNAL
                                                   THEN "kms.encrypt"
                                                   ELSE "kms.generateDataKey"]]
          /\ UNCHANGED << held, last >>
     ELSE LET r == encrypt(data, classification, now, token, "none", issued + 1, now, "undefined")
          IN /\ last' = [NoCall EXCEPT !.seq = last.seq + 1, !.op = "encrypt",
                                       !.tier = classification, !.payload = data,
                                       !.env = r.env, !.ok = r.ok, !.error = r.error,
                                       !.cause = r.cause, !.at = now]
             /\ held' = IF r.ok
                        THEN held \cup {[env |-> r.env, payload |-> data, tier |-> classification]}
                        ELSE held
             /\ UNCHANGED calls
  /\ UNCHANGED << now, keyCache, timers, issued, issueLog >>
  /\ UNCHANGED << tkVars, clVars, srvVars >>

\* faulty variant: an encrypt takes a key that is live in the cache, if there
\* is one, and asks for none
EncryptDone_reuse(i, kms, iv) ==
  LET c == calls[i]
      live == {k \in DOMAIN keyCache : keyCache[k].expiresAt > now}
      fresh == encrypt(c.payload, c.tier, c.ts, c.token, kms, issued + 1, now, iv)
      reuse == c.tier \in {CONFIDENTIAL, RESTRICTED} /\ live # {} /\ fresh.ok
      old == keyCache[CHOOSE k \in live : TRUE]
      r == IF reuse
           THEN [fresh EXCEPT !.dek = NoKey,
                              !.env.dataKeyId = old.keyId,
                              !.env.encryptedBlob.dek = old.plaintextKey]
           ELSE fresh
  IN /\ c.op = "encrypt"
     /\ kms \in KmsOutcomes(c.awaiting)
     /\ calls' = [calls EXCEPT ![i] = Idle]
     /\ IF r.dek # NoKey THEN Register(r.dek)
                         ELSE UNCHANGED << keyCache, timers, issued, issueLog >>
     /\ last' = [NoCall EXCEPT !.seq = last.seq + 1, !.op = "encrypt",
                               !.tier = c.tier, !.payload = c.payload,
                               !.env = r.env, !.ok = r.ok, !.error = r.error,
                               !.cause = r.cause, !.kms = kms, !.at = now,
                               !.registered = r.dek.keyId, !.abandoned = c.abandoned]
     /\ held' = IF r.ok /\ ~c.abandoned
                THEN held \cup {[env |-> r.env, payload |-> c.payload, tier |-> c.tier]}
                ELSE held
     /\ UNCHANGED << now, started, encrypts >>
     /\ UNCHANGED << tkVars, clVars, srvVars >>

EncryptDone(i, kms, iv) ==
  LET c == calls[i]
      r == encrypt(c.payload, c.tier, c.ts, c.token, kms, issued + 1, now, iv)
  IN /\ c.op = "encrypt"
     /\ kms \in KmsOutcomes(c.awaiting)
     /\ calls' = [calls EXCEPT ![i] = Idle]
     /\ IF r.dek # NoKey THEN Register(r.dek)
                         ELSE UNCHANGED << keyCache, timers, issued, issueLog >>
     /\ last' = [NoCall EXCEPT !.seq = last.seq + 1, !.op = "encrypt",
                               !.tier = c.tier, !.payload = c.payload,
                               !.env = r.env, !.ok = r.ok, !.error = r.error,
                               !.cause = r.cause, !.kms = kms, !.at = now,
                               !.registered = r.dek.keyId, !.abandoned = c.abandoned]
     /\ held' = IF r.ok /\ ~c.abandoned
                THEN held \cup {[env |-> r.env, payload |-> c.payload, tier |-> c.tier]}
                ELSE held
     /\ UNCHANGED << now, started, encrypts >>
     /\ UNCHANGED << tkVars, clVars, srvVars >>

\* faulty variant: a lookup that misses issues a fresh key (get-or-create)
Decrypt_reissue(h, m) ==
  LET e == Mutate(h, m)
      r == decrypt(keyCache, e, "none", now)
  IN /\ started < MaxCalls
     /\ Applies(h, m)
     /\ started' = started + 1
     /\ IF e.classification = INTERNAL
        THEN /\ FreeSlots # {}
             /\ calls' = [calls EXCEPT ![FirstFree] =
                            [Idle EXCEPT !.op = "decrypt", !.tier = h.tier,
                                         !.payload = h.payload, !.env = e,
                                         !.mutation = m, !.awaiting = "kms.decrypt"]]
             /\ UNCHANGED << last, keyCache, timers, issued, issueLog >>
        ELSE /\ last' = [NoCall EXCEPT !.seq = last.seq + 1, !.op = "decrypt",
                                       !.tier = h.tier, !.payload = h.payload,
                                       !.mutation = m, !.env = e, !.ok = r.ok,
                                       !.value = r.value, !.used = r.used,
                                       !.strategy = r.strategy,
                                       !.resident = (e.dataKeyId \in DOMAIN keyCache),
                                       !.error = r.error, !.cause = r.cause,
                                       !.at = now]
             /\ IF e.classification \in {CONFIDENTIAL, RESTRICTED} /\ r.used = NoKey
                THEN Register(generateDataKey("ok", issued + 1, now).dek)
                ELSE UNCHANGED << keyCache, timers, issued, issueLog >>
             /\ UNCHANGED calls
     /\ UNCHANGED << now, encrypts, held >>
     /\ UNCHANGED << tkVars, clVars, srvVars >>

Decrypt(h, m) ==
  LET e == Mutate(h, m)
  IN /\ started < MaxCalls
     /\ Applies(h, m)
     /\ started' = started + 1
     /\ IF e.classification = INTERNAL
        THEN /\ FreeSlots # {}
             /\ calls' = [calls EXCEPT ![FirstFree] =
                            [Idle EXCEPT !.op = "decrypt", !.tier = h.tier,
                                         !.payload = h.payload, !.env = e,
                                         !.mutation = m, !.awaiting = "kms.decrypt"]]
             /\ UNCHANGED last
        ELSE LET r == decrypt(keyCache, e, "none", now)
             IN /\ last' = [NoCall EXCEPT !.seq = last.seq + 1, !.op = "decrypt",
                                          !.tier = h.tier, !.payload = h.payload,
                                          !.mutation = m, !.env = e, !.ok = r.ok,
                                          !.value = r.value, !.used = r.used,
                                          !.strategy = r.strategy,
                                          !.resident = (e.dataKeyId \in DOMAIN keyCache),
                                          !.error = r.error, !.cause = r.cause,
                                          !.at = now]
                /\ UNCHANGED calls
     /\ UNCHANGED << now, keyCache, timers, issued, issueLog, encrypts, held >>
     /\ UNCHANGED << tkVars, clVars, srvVars >>

DecryptDone(i, kms) ==
  LET c == calls[i]
      r == decrypt(keyCache, c.env, kms, now)
  IN /\ c.op = "decrypt"
     /\ kms \in KmsOutcomes(c.awaiting)
     /\ calls' = [calls EXCEPT ![i] = Idle]
     /\ last' = [NoCall EXCEPT !.seq = last.seq + 1, !.op = "decrypt",
                               !.tier = c.tier, !.payload = c.payload,
                               !.mutation = c.mutation, !.env = c.env, !.ok = r.ok,
                               !.value = r.value, !.used = r.used,
                               !.strategy = r.strategy,
                               !.resident = (c.env.dataKeyId \in DOMAIN keyCache),
                               !.error = r.error, !.cause = r.cause,
                               !.kms = kms, !.at = now, !.abandoned = c.abandoned]
     /\ UNCHANGED << now, keyCache, timers, issued, issueLog, started, encrypts, held >>
     /\ UNCHANGED << tkVars, clVars, srvVars >>

\* generateDataKey(), rotateKeys() and getKeyMetadata(keyId) called directly
Admin(op) ==
  /\ started < MaxCalls
  /\ started' = started + 1
  /\ FreeSlots # {}
  /\ calls' = [calls EXCEPT ![FirstFree] =
                 [Idle EXCEPT !.op = op,
                              !.awaiting = CASE op = "generateDataKey" -> "kms.generateDataKey"
                                             [] op = "rotateKeys" -> "kms.enableKeyRotation"
                                             [] OTHER -> "kms.describeKey"]]
  /\ UNCHANGED << now, keyCache, timers, issued, issueLog, encrypts, held, last >>
  /\ UNCHANGED << tkVars, clVars, srvVars >>

GenerateDataKeyDone(i, kms) ==
  LET c == calls[i]
      k == generateDataKey(kms, issued + 1, now)
  IN /\ c.op = "generateDataKey"
     /\ kms \in KmsOutcomes(c.awaiting)
     /\ calls' = [calls EXCEPT ![i] = Idle]
     /\ IF k.ok THEN Register(k.dek)
                ELSE UNCHANGED << keyCache, timers, issued, issueLog >>
     /\ last' = [NoCall EXCEPT !.seq = last.seq + 1, !.op = c.op, !.ok = k.ok,
                               !.dek = k.dek, !.error = k.error, !.cause = k.error,
                               !.kms = kms, !.at = now,
                               !.registered = k.dek.keyId, !.abandoned = c.abandoned]
     /\ UNCHANGED << now, started, encrypts, held >>
     /\ UNCHANGED << tkVars, clVars, srvVars >>

\* faulty variant: the cache is cleared before the KMS answer is looked at
RotateKeysDone_clearFirst(i, kms) ==
  LET c == calls[i]
      e == rotateKeys(kms)
  IN /\ c.op = "rotateKeys"
     /\ kms \in KmsOutcomes(c.awaiting)
     /\ calls' = [calls EXCEPT ![i] = Idle]
     /\ keyCache' = << >>
     /\ last' = [NoCall EXCEPT !.seq = last.seq + 1, !.op = c.op, !.ok = (e = ""),
                               !.error = e, !.cause = e, !.kms = kms, !.at = now,
                               !.abandoned = c.abandoned]
     /\ UNCHANGED << now, timers, issued, issueLog, started, encrypts, held >>
     /\ UNCHANGED << tkVars, clVars, srvVars >>

RotateKeysDone(i, kms) ==
  LET c == calls[i]
      e == rotateKeys(kms)
  IN /\ c.op = "rotateKeys"
     /\ kms \in KmsOutcomes(c.awaiting)
     /\ calls' = [calls EXCEPT ![i] = Idle]
     /\ keyCache' = IF e = "" THEN << >> ELSE keyCache
     /\ last' = [NoCall EXCEPT !.seq = last.seq + 1, !.op = c.op, !.ok = (e = ""),
                               !.error = e, !.cause = e, !.kms = kms, !.at = now,
                               !.abandoned = c.abandoned]
     /\ UNCHANGED << now, timers, issued, issueLog, started, encrypts, held >>
     /\ UNCHANGED << tkVars, clVars, srvVars >>

GetKeyMetadataDone(i, kms) ==
  LET c == calls[i]
      e == getKeyMetadata(kms)
  IN /\ c.op = "getKeyMetadata"
     /\ kms \in KmsOutcomes(c.awaiting)
     /\ calls' = [calls EXCEPT ![i] = Idle]
     /\ last' = [NoCall EXCEPT !.seq = last.seq + 1, !.op = c.op, !.ok = (e = ""),
                               !.error = e, !.cause = e, !.kms = kms, !.at = now,
                               !.abandoned = c.abandoned]
     /\ UNCHANGED << now, keyCache, timers, issued, issueLog, started, encrypts, held >>
     /\ UNCHANGED << tkVars, clVars, srvVars >>

\* the callback scheduled at issue time: this.keyCache.delete(keyId)
TimerFire(tm) ==
  /\ tm \in timers
  /\ now >= tm.due
  /\ timers' = timers \ {tm}
  /\ keyCache' = [k \in DOMAIN keyCache \ {tm.keyId} |-> keyCache[k]]
  /\ UNCHANGED << now, issued, issueLog, calls, started, encrypts, held, last >>
  /\ UNCHANGED << tkVars, clVars, srvVars >>

Tick ==
  /\ now < MaxTicks * TickMs
  /\ now' = now + TickMs
  /\ UNCHANGED << keyCache, timers, issued, issueLog, calls, started, encrypts, held, last >>
  /\ UNCHANGED << tkVars, clVars, srvVars >>

AllOutcomes == {"ok", "incomplete"} \cup KmsFailures

Next ==
  \/ \E d \in Payloads, c \in Classifications :
       \E u \in (IF c = RESTRICTED THEN UUIDs ELSE {<< >>}) : Encrypt(d, c, u)
  \/ \E i \in Slots, kms \in AllOutcomes, iv \in IVs : EncryptDone(i, kms, iv)
  \/ \E h \in held, m \in Mutations : Decrypt(h, m)
  \/ \E i \in Slots, kms \in AllOutcomes : DecryptDone(i, kms)
  \/ \E op \in {"generateDataKey", "rotateKeys", "getKeyMetadata"} : Admin(op)
  \/ \E i \in Slots, kms \in AllOutcomes : GenerateDataKeyDone(i, kms)
  \/ \E i \in Slots, kms \in AllOutcomes : RotateKeysDone(i, kms)
  \/ \E i \in Slots, kms \in AllOutcomes : GetKeyMetadataDone(i, kms)
  \/ \E tm \in timers : TimerFire(tm)
  \/ Tick

Spec == Init /\ [][Next]_vars

-----------------------------------------------------------------------------
(* The tokenizer on its own: tokenizeData and detokenizeData applied to     *)
(* every string of up to MaxLen characters.                                 *)

TkChars == {"a", ":", "7"}

RECURSIVE StringsUpTo(_)
StringsUpTo(n) ==
  IF n = 0 THEN {<< >>}
  ELSE LET shorter == StringsUpTo(n - 1)
       IN shorter \cup {Append(x, c) : x \in {y \in shorter : Len(y) = n - 1}, c \in TkChars}

TkUUIDs == UUIDs \cup {<< "c", "0" >>}

TkInit ==
  /\ tkStage = "input"
  /\ tkInput \in StringsUpTo(MaxLen)
  /\ tkToken = << >>
  /\ tkOutput = << >>
  /\ SvcInit
  /\ ClInit
  /\ SrvInit

\* tokenizeData(data)
TkTokenize(u) ==
  /\ tkStage = "input"
  /\ tkToken' = tokenizeData(tkInput, u)
  /\ tkStage' = "tokenized"
  /\ UNCHANGED << tkInput, tkOutput >>
  /\ UNCHANGED << svcVars, clVars, srvVars >>

\* detokenizeData of the token just made
TkDetokenize ==
  /\ tkStage = "tokenized"
  /\ tkOutput' = detokenizeData(tkToken)
  /\ tkStage' = "done"
  /\ UNCHANGED << tkInput, tkToken >>
  /\ UNCHANGED << svcVars, clVars, srvVars >>

\* detokenizeData of a text that tokenizeData did not make
TkPassThrough ==
  /\ tkStage = "input"
  /\ tkOutput' = detokenizeData(tkInput)
  /\ tkStage' = "passed"
  /\ UNCHANGED << tkInput, tkToken >>
  /\ UNCHANGED << svcVars, clVars, srvVars >>

TkNext ==
  \/ \E u \in TkUUIDs : TkTokenize(u)
  \/ TkDetokenize
  \/ TkPassThrough

SpecTokenizer == TkInit /\ [][TkNext]_vars

-----------------------------------------------------------------------------
(* The life of data keys: concurrent issuance, abandoned calls, rotation    *)
(* and eviction, with the clock running until the last timer is due.        *)

\* the caller of a pending call stops waiting for it.  The service has no
\* cancellation: the promise stays pending and its continuation runs when
\* the KMS answers; only its result is no longer received by anyone.
Abandon(i) ==
  /\ calls[i].op # "idle"
  /\ ~calls[i].abandoned
  /\ calls' = [calls EXCEPT ![i].abandoned = TRUE]
  /\ UNCHANGED << now, keyCache, timers, issued, issueLog, started, encrypts, held, last >>
  /\ UNCHANGED << tkVars, clVars, srvVars >>

\* envelopes handed back to decrypt with one of their fields changed
NextEnvelope ==
  \/ \E d \in Payloads, c \in Classifications :
       \E u \in (IF c = RESTRICTED THEN UUIDs ELSE {<< >>}) : Encrypt(d, c, u)
  \/ \E i \in Slots, kms \in AllOutcomes, iv \in IVs : EncryptDone(i, kms, iv)
  \/ \E h \in held, m \in EnvelopeMutations : Decrypt(h, m)
  \/ \E i \in Slots, kms \in AllOutcomes : DecryptDone(i, kms)

SpecEnvelope == Init /\ [][NextEnvelope]_vars

\* the clock goes on while a timer is pending
TickToDue ==
  /\ now >= MaxTicks * TickMs
  /\ \E tm \in timers : tm.due > now
  /\ now' = now + TickMs
  /\ UNCHANGED << keyCache, timers, issued, issueLog, calls, started, encrypts, held, last >>
  /\ UNCHANGED << tkVars, clVars, srvVars >>

\* the payload of the encrypt calls below: key handling does not look at it
KeyRunPayloads == {JNum(7)}

NextKeys ==
  \/ \E d \in KeyRunPayloads, c \in {CONFIDENTIAL, RESTRICTED} :
       \E u \in (IF c = RESTRICTED THEN UUIDs ELSE {<< >>}) : Encrypt(d, c, u)
  \/ \E i \in Slots, kms \in AllOutcomes, iv \in IVs : EncryptDone(i, kms, iv)
  \/ \E op \in {"generateDataKey", "rotateKeys"} : Admin(op)
  \/ \E i \in Slots, kms \in AllOutcomes : GenerateDataKeyDone(i, kms)
  \/ \E i \in Slots, kms \in AllOutcomes : RotateKeysDone(i, kms)
  \/ \E i \in Slots : Abandon(i)
  \/ \E tm \in timers : TimerFire(tm)
  \/ Tick

SpecKeys == Init /\ [][NextKeys]_vars

\* encrypt calls that fail: a payload JSON.stringify rejects, one it turns
\* into undefined, a tier outside the enum, a failing KMS
FailingPayloads == {JNum(7), JCircular, JUndefined}

NextFailures ==
  \/ \E d \in FailingPayloads, c \in Classifications :
       \E u \in (IF c = RESTRICTED THEN UUIDs ELSE {<< >>}) : Encrypt(d, c, u)
  \/ \E i \in Slots, kms \in AllOutcomes, iv \in IVs : EncryptDone(i, kms, iv)
  \/ \E tm \in timers : TimerFire(tm)
  \/ Tick

SpecFailures == Init /\ [][NextFailures]_vars

NextEviction ==
  \/ \E d \in KeyRunPayloads : Encrypt(d, CONFIDENTIAL, << >>)
  \/ \E i \in Slots, kms \in AllOutcomes, iv \in IVs : EncryptDone(i, kms, iv)
  \/ Admin("rotateKeys")
  \/ \E i \in Slots, kms \in AllOutcomes : RotateKeysDone(i, kms)
  \/ \E tm \in timers : TimerFire(tm)
  \/ Tick
  \/ TickToDue

\* the event loop runs: time passes and a callback that is due is called
SpecEviction ==
  /\ Init /\ [][NextEviction]_vars
  /\ WF_vars(Tick \/ TickToDue)
  /\ WF_vars(\E tm \in timers : TimerFire(tm))

-----------------------------------------------------------------------------
(* The API client (src/src/api/client.ts) and the auth store                *)
(* (src/src/state/authStore.tsx).  A request is one makeRequest call: it    *)
(* sends, and on a failure sends again after a delay, up to retries times.  *)
(* The response interceptor answers a first 401 with a token refresh and    *)
(* one more sending of the same request.                                    *)

\* requests that may be made in a run
MaxRequests == 3

\* makeRequest(config, retries = 1)
retries == 1

\* answers of the server: success, 401, another failure
Statuses == {200, 401, 500}

\* who awaits a request: application code, nobody (logout's request, a
\* scheduled refresh), or the request k > 0 whose response interceptor awaits
\* the refresh
App == 0
Nobody == -1

\* a request being sent for the first time, with the Authorization header
\* the request interceptor gives it ("null": none)
NewRequest(endpoint, owner, authorization) ==
  [endpoint |-> endpoint, owner |-> owner, attempt |-> 0, retry |-> FALSE,
   authorization |-> authorization, state |-> "sending",
   saw401 |-> FALSE, refreshFailed |-> FALSE,
   hrefAtEnd |-> "", authAtEnd |-> FALSE]

\* the store, the page and the requests as one value
Client ==
  [token |-> authToken, user |-> authUser, isAuthenticated |-> isAuthenticated,
   timer |-> refreshTimeoutId, href |-> href, requests |-> requests]

\* logout(): the refresh timer is cleared, the logout request is made and
\* not awaited, the state is cleared.  The request interceptor of that
\* request runs after the state was cleared and finds no token.
logout(s) ==
  [s EXCEPT !.timer = FALSE,
            !.requests = Append(@, NewRequest("logout", Nobody, "null")),
            !.user = "null", !.token = "null", !.isAuthenticated = FALSE]

\* handleAuthError()
handleAuthError(s) == [logout(s) EXCEPT !.href = "/login"]

\* the Authorization header of a sending: the token of the store if there
\* is one, otherwise what the config already has
Authorization(s, old) == IF s.token # "null" THEN s.token ELSE old

\* client(originalRequest): the request is sent once more, _retry set
Resend(s, k) ==
  [s EXCEPT !.requests[k].state = "sending",
            !.requests[k].authorization = Authorization(s, @)]

\* whether the promise of refreshToken() rejects: it returns after logout()
\* when there is no live token, and catches whatever the refresh request
\* throws
refreshTokenRejects(refreshed) == FALSE

\* the promise makeRequest returned settles, and what awaited it goes on:
\* login() and refreshToken() set the store, and the response interceptor
\* that awaited the refresh sends its request once more, or, had the refresh
\* thrown, calls handleAuthError and rejects
Settle(s, i, ok) ==
  LET r == s.requests[i]
      s1 == [s EXCEPT !.requests[i].state = IF ok THEN "resolved" ELSE "rejected",
                      !.requests[i].hrefAtEnd = s.href,
                      !.requests[i].authAtEnd = s.isAuthenticated]
      set == [s1 EXCEPT !.user = "user", !.token = "live",
                        !.isAuthenticated = TRUE, !.timer = TRUE]
  IN CASE r.endpoint = "login" ->
            IF ok THEN set
            ELSE [s1 EXCEPT !.user = "null", !.token = "null", !.isAuthenticated = FALSE]
       [] r.endpoint = "refresh" ->
            LET s2 == IF ok THEN set ELSE logout(s1)
                k == r.owner
            IN IF k <= 0 THEN s2
               ELSE LET s3 == [s2 EXCEPT !.requests[k].refreshFailed = @ \/ ~ok]
                    IN IF refreshTokenRejects(ok)
                       THEN LET s4 == handleAuthError(s3)
                            IN [s4 EXCEPT !.requests[k].state = "rejected",
                                          !.requests[k].hrefAtEnd = s4.href,
                                          !.requests[k].authAtEnd = s4.isAuthenticated]
                       ELSE Resend(s3, k)
       [] OTHER -> s1

\* the interceptor rejects with createApiError: makeRequest waits and sends
\* again, or throws after its last attempt
Reject(s, i) ==
  IF s.requests[i].attempt = retries
  THEN Settle(s, i, FALSE)
  ELSE [s EXCEPT !.requests[i].state = "backoff"]

\* refreshToken() called for request k: without a live token it logs out
\* and returns; otherwise it makes the refresh request and awaits it
refreshToken(s, k) ==
  IF s.token \in {"null", "expired"}
  THEN [returned |-> TRUE, s |-> logout(s)]
  ELSE [returned |-> FALSE,
        s |-> [s EXCEPT !.requests = Append(@, NewRequest("refresh", k, s.token))]]

\* the response interceptor on a 401 of a request not yet marked _retry
OnUnauthorized(s, i) ==
  LET s1 == [s EXCEPT !.requests[i].retry = TRUE, !.requests[i].saw401 = TRUE]
      r == refreshToken(s1, i)
  IN IF r.returned
     THEN Resend([r.s EXCEPT !.requests[i].refreshFailed = TRUE], i)
     ELSE [r.s EXCEPT !.requests[i].state = "refreshing"]

\* a step of the client that leaves it as s
ClientStep(s) ==
  /\ Len(s.requests) <= MaxRequests
  /\ authToken' = s.token
  /\ authUser' = s.user
  /\ isAuthenticated' = s.isAuthenticated
  /\ refreshTimeoutId' = s.timer
  /\ href' = s.href
  /\ requests' = s.requests
  /\ UNCHANGED << svcVars, tkVars, srvVars >>

\* application code calls request.get / request.post
AppRequest ==
  ClientStep([Client EXCEPT !.requests = Append(@, NewRequest("data", App, authToken))])

\* application code calls login(credentials)
AppLogin ==
  ClientStep([Client EXCEPT !.requests = Append(@, NewRequest("login", App, authToken))])

\* application code calls logout()
AppLogout == ClientStep(logout(Client))

\* the server answers the sending of request i
Respond(i, status) ==
  /\ i \in 1..Len(requests)
  /\ requests[i].state = "sending"
  /\ ClientStep(CASE status = 200 -> Settle(Client, i, TRUE)
                  [] status = 401 /\ ~requests[i].retry -> OnUnauthorized(Client, i)
                  [] OTHER -> Reject(Client, i))

\* the delay of makeRequest is over: the next attempt, with a config of its
\* own
Backoff(i) ==
  /\ i \in 1..Len(requests)
  /\ requests[i].state = "backoff"
  /\ ClientStep([Client EXCEPT !.requests[i].attempt = @ + 1,
                               !.requests[i].retry = FALSE,
                               !.requests[i].authorization = authToken,
                               !.requests[i].state = "sending"])

\* the scheduled refresh: useAuthStore.getState().refreshToken()
RefreshTimerFire ==
  /\ refreshTimeoutId
  /\ ClientStep(refreshToken([Client EXCEPT !.timer = FALSE], Nobody).s)

\* the exp time of the stored token passes
TokenExpires ==
  /\ authToken = "live"
  /\ ClientStep([Client EXCEPT !.token = "expired"])

NextClient ==
  \/ AppRequest
  \/ AppLogin
  \/ AppLogout
  \/ \E i \in 1..MaxRequests, status \in Statuses : Respond(i, status)
  \/ \E i \in 1..MaxRequests : Backoff(i)
  \/ RefreshTimerFire
  \/ TokenExpires

\* the store rehydrated from a persisted state with a token that has not
\* expired: user and token are restored (isAuthenticated is not persisted)
\* and the refresh is scheduled
ClRehydrated ==
  /\ authToken = "live"
  /\ authUser = "user"
  /\ isAuthenticated = FALSE
  /\ refreshTimeoutId = TRUE
  /\ href = "/"
  /\ requests = << >>

ClientInit == SvcInit /\ TkIdle /\ SrvInit /\ (ClInit \/ ClRehydrated)

SpecClient == ClientInit /\ [][NextClient]_vars

-----------------------------------------------------------------------------
(* The client against a server that has lost the user's record (the mock   *)
(* server keeps its users in memory: src/mock/server.js l.69): the stored   *)
(* token still verifies, and POST /api/refresh answers 401 'User not found' *)
(* every time (l.432-437).  The store holds a live token throughout.  A     *)
(* chain of refresh requests is followed up to MaxRequests requests; in the *)
(* program it goes on.                                                      *)

\* the answers such a server can give to a sending of request r
StaleUserAnswers(r) == IF r.endpoint = "refresh" THEN {401} ELSE Statuses

RespondStale(i) ==
  /\ i \in 1..Len(requests)
  /\ \E status \in StaleUserAnswers(requests[i]) : Respond(i, status)

NextStaleUser ==
  \/ AppRequest
  \/ RefreshTimerFire
  \/ \E i \in 1..MaxRequests : RespondStale(i)
  \/ \E i \in 1..MaxRequests : Backoff(i)

StaleUserInit == SvcInit /\ TkIdle /\ SrvInit /\ ClRehydrated

\* the server answers every sending and every delay of makeRequest ends
SpecStaleUser ==
  /\ StaleUserInit /\ [][NextStaleUser]_vars
  /\ \A i \in 1..MaxRequests : WF_vars(RespondStale(i)) /\ WF_vars(Backoff(i))

-----------------------------------------------------------------------------
(* The mock backend (src/mock/server.js): its in-memory stores, the login   *)
(* route with the account lockout, and the routes that store and return     *)
(* encrypted records.  A handler runs from the arrival of its request to    *)
(* its response in one step, except login, which awaits bcrypt.compare      *)
(* between its checks and its verdict.                                      *)


\* res.status(..).json(..) for the request q
Respond_(q, status) ==
  [NoResponse EXCEPT !.n = response.n + 1, !.op = q.op, !.status = status,
                     !.email = q.email, !.password = q.password,
                     !.authorization = q.authorization, !.id = q.id]

Receive(q) ==
  /\ served < MaxServed
  /\ served' = served + 1
  /\ request' = q

\* POST /api/register with a name, an address and a password that pass the
\* validations
RegisterUser(email, password) ==
  LET q == [NoRequest EXCEPT !.op = "register", !.email = normalizedEmail(email),
                             !.password = password]
      user == [id |-> UserId(Cardinality(DOMAIN users)), email |-> q.email,
               password |-> Hash(password), isActive |-> TRUE, loginCount |-> 0]
  IN /\ Receive(q)
     /\ IF q.email \in DOMAIN users
        THEN /\ response' = Respond_(q, 409)
             /\ UNCHANGED << users, auditLogs >>
        ELSE /\ users' = (q.email :> user) @@ users
             /\ auditLogs' = createAuditLog(auditLogs, "user_register", user.id)
             /\ response' = Respond_(q, 201)
     /\ UNCHANGED << loginAttempts, encryptedRecords, clock, logins >>
     /\ UNCHANGED << svcVars, tkVars, clVars >>

\* POST /api/login up to await bcrypt.compare
LoginArrives(email, password) ==
  LET q == [NoRequest EXCEPT !.op = "login", !.email = normalizedEmail(email),
                             !.password = password]
      locked == isAccountLocked(loginAttempts, q.email, clock)
      answer(status) == Respond_(q, status)
  IN /\ Receive(q)
     /\ IF email = << >> \/ password = ""
        THEN /\ response' = answer(400)
             /\ UNCHANGED << loginAttempts, logins >>
        ELSE IF locked
        THEN /\ response' = answer(423)
             /\ UNCHANGED << loginAttempts, logins >>
        ELSE IF q.email \notin DOMAIN users
        THEN /\ loginAttempts' = recordFailedLogin(loginAttempts, q.email, clock)
             /\ response' = answer(401)
             /\ UNCHANGED logins
        ELSE IF ~users[q.email].isActive
        THEN /\ response' = answer(403)
             /\ UNCHANGED << loginAttempts, logins >>
        ELSE /\ Len(logins) < MaxComparing
             /\ logins' = Append(logins, q)
             /\ UNCHANGED << loginAttempts, response >>
     /\ UNCHANGED << users, encryptedRecords, auditLogs, clock >>
     /\ UNCHANGED << svcVars, tkVars, clVars >>

\* POST /api/login from the result of bcrypt.compare on
LoginCompared(i) ==
  /\ i \in 1..Len(logins)
  /\ LET q == logins[i]
         userData == users[q.email]
     IN IF ~Compare(q.password, userData.password)
        THEN /\ loginAttempts' = recordFailedLogin(loginAttempts, q.email, clock)
             /\ auditLogs' = createAuditLog(auditLogs, "user_login_failed", userData.id)
             /\ response' = Respond_(q, 401)
             /\ UNCHANGED users
        ELSE /\ loginAttempts' = clearFailedLogins(loginAttempts, q.email)
             /\ users' = [users EXCEPT ![q.email].loginCount = @ + 1]
             /\ auditLogs' = createAuditLog(auditLogs, "user_login_success", userData.id)
             /\ response' = [Respond_(q, 200) EXCEPT !.token = Token(userData)]
  /\ logins' = SubSeq(logins, 1, i - 1) \o SubSeq(logins, i + 1, Len(logins))
  /\ UNCHANGED << encryptedRecords, clock, served, request >>
  /\ UNCHANGED << svcVars, tkVars, clVars >>

\* tokens the server has issued: to every user that has logged in
IssuedTokens == {Token(users[e]) : e \in {x \in DOMAIN users : users[x].loginCount > 0}}

\* POST /api/encrypt with a body that passes the validations
EncryptRecord(authorization, data) ==
  LET q == [NoRequest EXCEPT !.op = "encrypt", !.authorization = authorization]
      id == RecordId(Cardinality(DOMAIN encryptedRecords) - 2)
      record == [id |-> id, userId |-> authorization.userId,
                 encryptedData |-> mockEncrypt(data)]
  IN /\ Receive(q)
     /\ IF authenticateToken(authorization) # 0
        THEN /\ response' = Respond_(q, authenticateToken(authorization))
             /\ UNCHANGED << encryptedRecords, auditLogs >>
        ELSE /\ encryptedRecords' = (id :> record) @@ encryptedRecords
             /\ auditLogs' = createAuditLog(auditLogs, "data_encrypt", authorization.userId)
             /\ response' = [Respond_(q, 200) EXCEPT !.id = id]
     /\ UNCHANGED << users, loginAttempts, clock, logins >>
     /\ UNCHANGED << svcVars, tkVars, clVars >>

\* faulty variant: any authenticated user passes the ownership check
Owns_anyone(record, user) == TRUE

\* the ownership check of GET /api/decrypt/:id
Owns(record, user) == record.userId = user.userId

\* GET /api/decrypt/:id
DecryptRecord(authorization, id) ==
  LET q == [NoRequest EXCEPT !.op = "decrypt", !.authorization = authorization, !.id = id]
      record == encryptedRecords[id]
      decryptedData == mockDecrypt(record.encryptedData)
  IN /\ Receive(q)
     /\ IF authenticateToken(authorization) # 0
        THEN /\ response' = Respond_(q, authenticateToken(authorization))
             /\ UNCHANGED auditLogs
        ELSE IF id \notin DOMAIN encryptedRecords
        THEN /\ response' = Respond_(q, 404)
             /\ UNCHANGED auditLogs
        ELSE IF ~Owns(record, authorization)
        THEN /\ auditLogs' = createAuditLog(auditLogs, "data_access_denied", authorization.userId)
             /\ response' = Respond_(q, 403)
        ELSE IF ~decryptedData.ok
        THEN /\ auditLogs' = createAuditLog(auditLogs, "data_decrypt_failed", authorization.userId)
             /\ response' = Respond_(q, 500)
        ELSE /\ auditLogs' = createAuditLog(auditLogs, "data_decrypt", authorization.userId)
             /\ response' = [Respond_(q, 200) EXCEPT !.content = decryptedData.value]
     /\ UNCHANGED << users, loginAttempts, encryptedRecords, clock, logins >>
     /\ UNCHANGED << svcVars, tkVars, clVars >>

SrvTick ==
  /\ clock < MaxSrvTicks * (LOCKOUT_DURATION \div 2)
  /\ clock' = clock + LOCKOUT_DURATION \div 2
  /\ UNCHANGED << users, loginAttempts, encryptedRecords, auditLogs, logins,
                  served, request, response >>
  /\ UNCHANGED << svcVars, tkVars, clVars >>

\* logins for the admin's address, in either spelling, from clients that do
\* not wait for one answer before they send the next request
NextLockout ==
  \/ \E email \in AdminSpellings, password \in {"", adminPassword, "wrong"} :
       LoginArrives(email, password)
  \/ \E i \in 1..MaxComparing : LoginCompared(i)
  \/ SrvTick

SrvStart == SvcInit /\ TkIdle /\ ClInit /\ SrvInit

SpecLockout == SrvStart /\ [][NextLockout]_vars

\* a second user registers, logs in, stores records and asks for records
RecordIds == {SampleId(1), RecordId(1), "rec-0"}

NextRecords ==
  \/ RegisterUser(userEmail, userPassword)
  \/ LoginArrives(adminEmail, adminPassword)
  \/ LoginArrives(userEmail, userPassword)
  \/ \E i \in 1..MaxComparing : LoginCompared(i)
  \/ \E a \in IssuedTokens \cup {NoToken, BadToken} : EncryptRecord(a, JNum(7))
  \/ \E a \in IssuedTokens \cup {NoToken, BadToken}, id \in RecordIds : DecryptRecord(a, id)

SpecRecords == SrvStart /\ [][NextRecords]_vars

-----------------------------------------------------------------------------
(* Properties.                                                              *)

EncryptReturned == last.op = "encrypt" /\ last.ok
DecryptEnded == last.op = "decrypt"
KeyedTier(c) == c \in {CONFIDENTIAL, RESTRICTED}

\* C1: round trip. Decrypting the unaltered envelope encrypt(P, T) returned
\* gives back P, for every tier T. Stated for the calls that can succeed at
\* all: the KMS call, if any, succeeded, and for the keyed tiers the data key
\* was found live in the cache.
C1_RoundTrip ==
  (/\ DecryptEnded
   /\ last.mutation = "none"
   /\ last.kms \in {"none", "ok"}
   /\ (KeyedTier(last.env.classification) => last.used # NoKey))
  => (last.ok /\ last.value = last.payload)

\* C2: classification is preserved. The envelope encrypt(P, T) returns has
\* classification T; at RESTRICTED it has classification "restricted",
\* algorithm "aes-256-cbc" and a non-empty iv.
C2_ClassificationPreserved ==
  EncryptReturned =>
    /\ last.env.classification = last.tier
    /\ (last.tier = RESTRICTED =>
          /\ last.env.algorithm = "aes-256-cbc"
          /\ last.env.iv \notin {"", "undefined"})

\* the algorithm tag the code gives each tier, and the one the specification
\* lists
AlgorithmTag(c) ==
  CASE c = PUBLIC -> "base64"
    [] c = INTERNAL -> "aws-kms"
    [] OTHER -> "aes-256-cbc"
ListedAlgorithmTag(c) == IF c = INTERNAL THEN "root-kms" ELSE AlgorithmTag(c)

\* C3 (as stated): the algorithm tag of the envelope is "base64" for PUBLIC,
\* "root-kms" for INTERNAL and "aes-256-cbc" for CONFIDENTIAL and RESTRICTED.
C3_TierFidelityAsStated ==
  EncryptReturned => last.env.algorithm = ListedAlgorithmTag(last.tier)

\* C3 (amended): the algorithm tag of the envelope is "base64" for PUBLIC,
\* "aws-kms" for INTERNAL and "aes-256-cbc" for CONFIDENTIAL and RESTRICTED,
\* for the envelope just returned and for every envelope a caller holds.
C3_TierFidelity ==
  /\ EncryptReturned => last.env.algorithm = AlgorithmTag(last.tier)
  /\ \A h \in held : h.env.algorithm = AlgorithmTag(h.tier)

C3_Witness ==
  /\ EncryptReturned
  /\ last.tier = INTERNAL
  /\ \E h \in held : h.tier = RESTRICTED

\* C4: context binding. Decrypt of an INTERNAL envelope whose
\* encryptionContext field was altered after encrypt fails; it never returns
\* a plaintext.
C4_ContextBinding ==
  (/\ DecryptEnded
   /\ last.env.classification = INTERNAL
   /\ last.mutation = "context")
  => (~last.ok /\ last.value = JNull)

\* a returned envelope, key or payload shows plaintext key material
EnvelopeShowsKey(e) ==
  \/ e.dataKeyId \in AllKeyBytes
  \/ e.algorithm \in AllKeyBytes
  \/ e.iv \in AllKeyBytes
  \/ e.authTag \in AllKeyBytes
ResultShowsKey ==
  \/ last.dek.plaintextKey \in AllKeyBytes
  \/ (last.op = "encrypt" /\ EnvelopeShowsKey(last.env))

\* C5 (as stated): no operation of the public interface returns a data key's
\* plaintextKey to its caller.
C5_NoPlaintextKeyAsStated == ~ResultShowsKey

\* C5 (amended): encrypt, decrypt, rotateKeys and getKeyMetadata never
\* return plaintext key material, in the result just returned or in any
\* envelope a caller holds; generateDataKey returns the key it registered,
\* plaintextKey included.
C5_NoPlaintextKey ==
  /\ last.op # "generateDataKey" => ~ResultShowsKey
  /\ \A h \in held : ~EnvelopeShowsKey(h.env)
  /\ (last.op = "generateDataKey" /\ last.ok) =>
       /\ last.dek.plaintextKey \in AllKeyBytes
       /\ last.dek.keyId \in DOMAIN issueLog

C5_Witness ==
  /\ EncryptReturned
  /\ last.tier = CONFIDENTIAL
  /\ last.env.dataKeyId \in DOMAIN keyCache
  /\ keyCache[last.env.dataKeyId].plaintextKey \in AllKeyBytes

\* the time-to-live of the key an envelope names had elapsed when the last
\* call ended
Elapsed(id) == id \in DOMAIN issueLog /\ last.at >= issueLog[id] + cacheTimeout

\* C6: cache expiry. Once the time-to-live has elapsed since a key was
\* issued, the lookup of its id misses, whether or not the eviction timer
\* has fired: a decrypt that found a key found it before its time-to-live
\* elapsed, and found the key registered under that id.
C6_CacheExpiry ==
  (DecryptEnded /\ last.used # NoKey) =>
    /\ last.used.keyId = last.env.dataKeyId
    /\ ~Elapsed(last.env.dataKeyId)

\* a lookup after the time-to-live, with the entry still in the cache
C6_Witness ==
  /\ DecryptEnded
  /\ KeyedTier(last.env.classification)
  /\ Elapsed(last.env.dataKeyId)
  /\ last.resident
  /\ last.used = NoKey
  /\ ~last.ok

\* the key the decrypted envelope names was issued and, when decrypt ran,
\* was gone from the cache or past its time-to-live
AfterEviction ==
  /\ DecryptEnded
  /\ KeyedTier(last.env.classification)
  /\ last.env.dataKeyId \in DOMAIN issueLog
  /\ (~last.resident \/ Elapsed(last.env.dataKeyId))

\* the error getOrDecryptDataKey raises on a miss
KeyNotFound == "Data key decryption not implemented"

C8_UnsupportedTier ==
  (/\ last.op = "encrypt"
   /\ last.tier \notin DataClassification
   /\ JSONstringify(last.payload).ok)
  => (/\ ~last.ok
      /\ last.env = NoEnvelope
      /\ last.error = "Unsupported data classification")

\* C9: tokenization is reversible. For every string B, the empty one
\* included, detokenizeData(tokenizeData(B)) = B.
C9_TokenizationReversible ==
  tkStage = "done" => tkOutput = tkInput

\* the strategy that made an envelope, read off its blob, and the strategy
\* assigned to a tier, weakest first
StrategyOf(e) ==
  CASE e.encryptedBlob.enc = "base64" -> 1
    [] e.encryptedBlob.enc = "kms" -> 2
    [] e.encryptedBlob.enc = "aes" /\ ~StartsWithTag(e.encryptedBlob.body) -> 3
    [] e.encryptedBlob.enc = "aes" /\ StartsWithTag(e.encryptedBlob.body) -> 4
    [] OTHER -> 0
AssignedStrategy(c) ==
  CASE c = PUBLIC -> 1 [] c = INTERNAL -> 2 [] c = CONFIDENTIAL -> 3
    [] c = RESTRICTED -> 4 [] OTHER -> 5

\* C10: no silent tier downgrade. An encrypt whose KMS call failed returns an
\* error and no envelope, and no envelope returned was made by a strategy
\* weaker than the one assigned to the requested tier.
C10_NoDowngrade ==
  /\ (last.op = "encrypt" /\ last.kms \notin {"none", "ok"}) =>
       (~last.ok /\ last.env = NoEnvelope /\ last.error # "")
  /\ EncryptReturned => StrategyOf(last.env) >= AssignedStrategy(last.tier)
  /\ \A h \in held : StrategyOf(h.env) >= AssignedStrategy(h.tier)

C10_Witness ==
  /\ last.op = "encrypt"
  /\ last.kms \in KmsFailures
  /\ last.tier = INTERNAL
  /\ \E h \in held : h.tier = RESTRICTED /\ StrategyOf(h.env) = 4

\* the class of a KMS failure, and the class an error message lets its
\* reader tell: a KMS error passed on as it is shows its class, a fixed
\* message of the service shows none
FailureClass(e) ==
  CASE e = "ThrottlingException" -> "transient"
    [] e = "AccessDeniedException" -> "permanent"
    [] OTHER -> "none"

\* C11: failure classes are distinguishable. When the KMS call of an encrypt,
\* decrypt, generateDataKey or rotateKeys fails, the error the caller gets
\* carries the class of the failure, transient or permanent.
C11_FailureClasses ==
  (/\ last.op \in {"encrypt", "decrypt", "generateDataKey", "rotateKeys"}
   /\ last.kms \in KmsFailures)
  => FailureClass(last.error) = FailureClass(last.kms)

\* a cache entry with all its parts: the id it is filed under, the plaintext
\* key and the wrapped key of one KMS response, and its time-to-live
CompleteEntry(k) ==
  LET e == keyCache[k]
  IN /\ e.keyId = k
     /\ \E i \in 1..6 : e.plaintextKey = KeyBytes(i) /\ e.encryptedKey = Wrapped(i)
     /\ e.expiresAt = e.createdAt + cacheTimeout

\* the last call to end was one that asks the KMS for a data key
IssuanceEnded ==
  \/ last.op = "generateDataKey"
  \/ last.op = "encrypt" /\ KeyedTier(last.tier) /\ last.kms # "none"

\* C12 (as stated): every cache entry holds the plaintext key and its
\* wrapped form, and a generateDataKey whose KMS call failed, answered with
\* one form only, or was abandoned while in flight leaves no entry for its
\* key in the cache.
C12_AtomicIssuanceAsStated ==
  /\ \A k \in DOMAIN keyCache : CompleteEntry(k)
  /\ (IssuanceEnded /\ (last.kms # "ok" \/ last.abandoned)) =>
       (last.registered = "" /\ last.registered \notin DOMAIN keyCache)

\* C12 (amended): every cache entry holds the plaintext key and its wrapped
\* form; a generateDataKey whose KMS call failed or answered with one form
\* only registers nothing and leaves the cache as it was; abandoning a call
\* changes nothing in the cache, and when the KMS answers a call, abandoned
\* or not, with both forms, the call adds exactly one complete entry.
C12_AtomicIssuance ==
  /\ [](\A k \in DOMAIN keyCache : CompleteEntry(k))
  /\ []((IssuanceEnded /\ last.kms # "ok") => (~last.ok /\ last.registered = ""))
  /\ [][(last'.seq # last.seq /\ IssuanceEnded' /\ last'.kms # "ok") =>
          (keyCache' = keyCache /\ timers' = timers /\ issued' = issued)]_vars
  /\ [][(\E i \in Slots : calls'[i].abandoned /\ ~calls[i].abandoned) =>
          (keyCache' = keyCache /\ timers' = timers /\ issued' = issued)]_vars
  /\ [][(last'.seq # last.seq /\ IssuanceEnded' /\ last'.kms = "ok") =>
          (/\ last'.registered \notin DOMAIN keyCache
           /\ DOMAIN keyCache' = DOMAIN keyCache \cup {last'.registered}
           /\ \A k \in DOMAIN keyCache : keyCache'[k] = keyCache[k])]_vars

\* a response with one form only has just been turned down, with a key in
\* the cache and an abandoned call still waiting for the KMS
C12_Witness ==
  /\ IssuanceEnded
  /\ last.kms = "incomplete"
  /\ DOMAIN keyCache # {}
  /\ \E i \in Slots : calls[i].abandoned

\* the step ends a decrypt of a CONFIDENTIAL or RESTRICTED envelope
KeyedDecryptStep ==
  /\ last'.seq # last.seq
  /\ last'.op = "decrypt"
  /\ KeyedTier(last'.env.classification)

\* C13: a cache lookup never creates or alters keys. A decrypt of a
\* CONFIDENTIAL or RESTRICTED envelope, hit or miss, leaves the cached keys
\* and their timers as they were, registers no key and makes no call to the
\* KMS.
C13_LookupFrame ==
  [][KeyedDecryptStep =>
       /\ keyCache' = keyCache
       /\ timers' = timers
       /\ issued' = issued
       /\ issueLog' = issueLog
       /\ calls' = calls
       /\ last'.kms = "none"]_vars

\* a hit: the decrypt found the key its envelope names
C13_Witness ==
  /\ DecryptEnded
  /\ KeyedTier(last.env.classification)
  /\ last.used # NoKey
  /\ last.ok
  /\ issued >= 1

\* the step is an encrypt at PUBLIC or a decrypt of a PUBLIC envelope
PublicStep ==
  /\ started' = started + 1
  /\ \/ last'.seq # last.seq /\ last'.op = "encrypt" /\ last'.tier = PUBLIC
     \/ last'.seq # last.seq /\ last'.op = "decrypt"
          /\ last'.env.classification = PUBLIC

\* C14: PUBLIC is crypto-free. An encrypt at PUBLIC and a decrypt of a PUBLIC
\* envelope end in the step they start in, make no call to the KMS, read no
\* data key and leave the cache as it was; the envelope is the base64
\* encoding, filed under no key, and decrypt decodes it.
C14_PublicFrame ==
  /\ [][PublicStep =>
          /\ calls' = calls
          /\ last'.kms = "none"
          /\ last'.used = NoKey
          /\ last'.registered = ""
          /\ keyCache' = keyCache
          /\ timers' = timers
          /\ issued' = issued]_vars
  /\ [](\A i \in Slots : calls[i].op = "encrypt" => calls[i].tier # PUBLIC)
  /\ []((EncryptReturned /\ last.tier = PUBLIC) =>
          /\ last.env.encryptedBlob = Blob("base64", "", NoContext, "",
                                           ToBase64(JSONstringify(last.payload).text))
          /\ last.env.dataKeyId = "public")
  /\ []((DecryptEnded /\ last.env.classification = PUBLIC) =>
          /\ last.ok
          /\ JSONstringify(last.value).text = FromBase64(last.env.encryptedBlob.body))

\* a PUBLIC round trip with a data key in the cache
C14_Witness ==
  /\ DecryptEnded
  /\ last.env.classification = PUBLIC
  /\ last.ok
  /\ last.value = last.payload
  /\ DOMAIN keyCache # {}

\* C15: dispatch by classification only. The case of decrypt's switch that
\* runs is the one of the envelope's classification, whatever its algorithm
\* tag, dataKeyId and blob: PUBLIC decodes without KMS and key, INTERNAL
\* calls the KMS, CONFIDENTIAL and RESTRICTED look the key up under
\* dataKeyId, and a classification outside the enum is rejected.
C15_DispatchByClassification ==
  DecryptEnded =>
    LET c == last.env.classification
    IN /\ last.strategy = IF c \in DataClassification THEN c ELSE "default"
       /\ c = PUBLIC =>
            /\ last.kms = "none" /\ last.used = NoKey
            /\ last.ok = JSONparse(decryptPublicData(last.env.encryptedBlob)).ok
       /\ c = INTERNAL => (last.kms # "none" /\ last.used = NoKey)
       /\ KeyedTier(c) =>
            /\ last.kms = "none"
            /\ last.used # NoKey => last.used.keyId = last.env.dataKeyId
            /\ last.used = NoKey => last.cause = KeyNotFound
       /\ c \notin DataClassification =>
            /\ ~last.ok /\ last.value = JNull
            /\ last.cause = "Unsupported data classification"
            /\ last.kms = "none" /\ last.used = NoKey

\* a CONFIDENTIAL envelope given a blob of the PUBLIC form: the key was
\* looked up and the blob did not decipher
C15_Witness ==
  /\ DecryptEnded
  /\ last.mutation = "shape"
  /\ last.env.classification = CONFIDENTIAL
  /\ last.env.encryptedBlob.enc = "base64"
  /\ last.used # NoKey
  /\ ~last.ok

\* C16: tamper detection. Decrypt of a CONFIDENTIAL or RESTRICTED envelope
\* whose encryptedBlob was changed fails, and a decrypt that succeeds returns
\* the payload that was encrypted.
C16_TamperDetection ==
  (DecryptEnded /\ KeyedTier(last.env.classification)) =>
    /\ last.mutation \in BlobTampers => ~last.ok
    /\ last.ok => last.value = last.payload

\* the messages of the errors the service throws to its callers, and the
\* KMS errors it lets through
ServiceErrors ==
  {"Failed to encrypt data", "Failed to decrypt data",
   "Failed to generate data encryption key",
   "Failed to rotate encryption keys", "Failed to retrieve key metadata"}

\* texts a deciphered blob can have
OtherTexts == {JSONstringify(d).text : d \in {p \in Payloads : JSONstringify(p).ok}}
                \cup {<< "5" >>, Garbled}

KeyIds == {KeyUUID(i) : i \in 1..6}

\* C18: eventual eviction. Every key put into the cache is removed from it
\* at some later time, by the timer set when it was issued or before that
\* by rotateKeys; while it is in the cache its timer is pending.
C18_EventualEviction ==
  /\ [](\A id \in DOMAIN keyCache : \E tm \in timers :
          tm.keyId = id /\ tm.due = keyCache[id].expiresAt)
  /\ \A id \in KeyIds : (id \in DOMAIN keyCache) ~> (id \notin DOMAIN keyCache)

\* one key removed by its timer, another still in the cache
C18_Witness ==
  /\ \E id \in DOMAIN issueLog :
       /\ id \notin DOMAIN keyCache
       /\ \A tm \in timers : tm.keyId # id
       /\ now >= issueLog[id] + cacheTimeout
  /\ DOMAIN keyCache # {}

\* C19: independent concurrent issuance. A CONFIDENTIAL or RESTRICTED encrypt
\* awaiting the KMS can go on as soon as its own response is there, whatever
\* other calls are pending; every key is registered under an id of its own,
\* so no two envelopes returned name the same id; and the id an envelope
\* names is, when the envelope is returned and as long as the entry stays,
\* the id of the key that enciphered its blob.
C19_IndependentIssuance ==
  /\ [](\A i \in Slots : calls[i].op = "encrypt" =>
          \A iv \in IVs : ENABLED EncryptDone(i, "ok", iv))
  /\ [](Cardinality(DOMAIN issueLog) = issued)
  /\ [](\A a, b \in held :
          (KeyedTier(a.tier) /\ KeyedTier(b.tier) /\ a # b)
          => a.env.dataKeyId # b.env.dataKeyId)
  /\ [](\A h \in held :
          (KeyedTier(h.tier) /\ h.env.dataKeyId \in DOMAIN keyCache)
          => /\ keyCache[h.env.dataKeyId].keyId = h.env.dataKeyId
             /\ keyCache[h.env.dataKeyId].plaintextKey = h.env.encryptedBlob.dek)
  /\ [][(last'.seq # last.seq /\ last'.op = "encrypt" /\ last'.ok
          /\ KeyedTier(last'.tier))
        => /\ last'.env.dataKeyId \in DOMAIN keyCache' \ DOMAIN keyCache
           /\ keyCache'[last'.env.dataKeyId].plaintextKey
                = last'.env.encryptedBlob.dek]_vars

\* two overlapping calls: the one started first got its key second, and
\* both envelopes resolve to their own keys
C19_Witness ==
  \E a, b \in held :
    /\ KeyedTier(a.tier) /\ KeyedTier(b.tier)
    /\ a.env.timestamp < b.env.timestamp
    /\ a.env.dataKeyId = KeyUUID(2)
    /\ b.env.dataKeyId = KeyUUID(1)
    /\ {a.env.dataKeyId, b.env.dataKeyId} \subseteq DOMAIN keyCache

\* C20: 401 handling. A request of the application that got a 401, whose
\* token refresh did not succeed, and that was rejected, was rejected with
\* the auth state cleared and the page sent to /login.
C20_RedirectOn401 ==
  \A i \in 1..Len(requests) :
    LET r == requests[i]
    IN (r.owner = App /\ r.state = "rejected" /\ r.saw401 /\ r.refreshFailed)
       => (r.hrefAtEnd = "/login" /\ ~r.authAtEnd)

\* the step ends a rotateKeys call
RotateKeysEnds == last'.seq # last.seq /\ last'.op = "rotateKeys"

\* C21: rotateKeys clears the cache only after kms.enableKeyRotation has
\* succeeded. Starting the call leaves the cache as it is; when the KMS call
\* succeeds the call returns with the cache empty; when it fails the call
\* throws its error and leaves the cache as it found it.
C21_RotateAfterSuccess ==
  /\ [][(\E i \in Slots : calls'[i].op = "rotateKeys" /\ calls[i].op # "rotateKeys")
          => keyCache' = keyCache]_vars
  /\ [][(RotateKeysEnds /\ last'.kms = "ok")
          => (last'.ok /\ keyCache' = << >>)]_vars
  /\ [][(RotateKeysEnds /\ last'.kms # "ok")
          => (/\ ~last'.ok
              /\ last'.error = "Failed to rotate encryption keys"
              /\ keyCache' = keyCache)]_vars

\* a rotateKeys call failed with a key in the cache
C21_Witness ==
  /\ last.op = "rotateKeys"
  /\ ~last.ok
  /\ last.kms \in KmsFailures
  /\ DOMAIN keyCache # {}

\* the step ends an encrypt at CONFIDENTIAL or RESTRICTED that returns an
\* envelope
KeyedEncryptReturns ==
  /\ last'.seq # last.seq
  /\ last'.op = "encrypt"
  /\ KeyedTier(last'.tier)
  /\ last'.ok

\* C22: one fresh data key per encryption. An encrypt at CONFIDENTIAL or
\* RESTRICTED that returns an envelope has made one generateDataKey call to
\* the KMS, whose answer it took, and has added one entry to the cache, under
\* an id never issued before; the key of its envelope is neither a key that
\* was in the cache nor the key of an envelope returned earlier.
C22_FreshKeyPerEncrypt ==
  [][KeyedEncryptReturns =>
       /\ last'.kms = "ok"
       /\ \E i \in Slots :
            /\ calls[i].op = "encrypt" /\ calls[i].awaiting = "kms.generateDataKey"
            /\ calls' = [calls EXCEPT ![i] = Idle]
       /\ issued' = issued + 1
       /\ last'.env.dataKeyId \notin DOMAIN issueLog
       /\ DOMAIN keyCache' = DOMAIN keyCache \cup {last'.env.dataKeyId}
       /\ Cardinality(DOMAIN keyCache') = Cardinality(DOMAIN keyCache) + 1
       /\ \A k \in DOMAIN keyCache :
            /\ keyCache'[k] = keyCache[k]
            /\ keyCache[k].plaintextKey # last'.env.encryptedBlob.dek
       /\ \A h \in held :
            /\ h.env.dataKeyId # last'.env.dataKeyId
            /\ h.env.encryptedBlob.dek # last'.env.encryptedBlob.dek]_vars

\* an encrypt returned its envelope while the key of an earlier envelope was
\* live in the cache
C22_Witness ==
  /\ EncryptReturned
  /\ KeyedTier(last.tier)
  /\ \E h \in held :
       /\ KeyedTier(h.tier)
       /\ h.env.dataKeyId # last.env.dataKeyId
       /\ h.env.dataKeyId \in DOMAIN keyCache
       /\ keyCache[h.env.dataKeyId].expiresAt > now
  /\ last.env.dataKeyId \in DOMAIN keyCache

\* C23: a failed encrypt has no effect on the cache. When an encrypt call
\* ends in an error, whatever raised it, the cache holds the entries it held
\* before, and no key was registered and no timer set.
C23_FailedEncryptFrame ==
  [][(last'.seq # last.seq /\ last'.op = "encrypt" /\ ~last'.ok)
       => (keyCache' = keyCache /\ timers' = timers /\ issued' = issued)]_vars

\* values the iv and authTag fields of an envelope can be given
OtherIVs == IVs \cup {"undefined", "00000000"}
OtherAuthTags == {"sha256-hmac", "undefined", "forged"}

\* C24: the outcome of decrypt does not depend on iv and authTag. A decrypt
\* of a CONFIDENTIAL or RESTRICTED envelope ends as the decrypt of the same
\* envelope with any other iv and authTag does, at the same time and with
\* the same cache: with the same payload or with the same error, raised by
\* the same cause, having read the same key.
C24_IvAndTagUnread ==
  (DecryptEnded /\ KeyedTier(last.env.classification)) =>
    \A iv \in OtherIVs, tag \in OtherAuthTags :
      LET e == [last.env EXCEPT !.iv = iv, !.authTag = tag]
          r == decrypt(keyCache, e, "none", last.at)
      IN /\ r.ok = last.ok
         /\ r.value = last.value
         /\ r.error = last.error
         /\ r.cause = last.cause
         /\ r.used = last.used

\* a decrypt of an envelope that carries the iv and the tag encrypt gave it
\* returned the payload
C24_Witness ==
  /\ DecryptEnded
  /\ KeyedTier(last.env.classification)
  /\ last.ok
  /\ last.env.iv \in IVs
  /\ last.env.authTag = "sha256-hmac"
  /\ last.value = last.payload

Settled(i) == i <= Len(requests) /\ requests[i].state \in {"resolved", "rejected"}

LogoutAnswered(i) ==
  /\ requests[i].endpoint = "logout"
  /\ requests[i].state = "sending"
  /\ requests'[i] # requests[i]

\* C26: logout() quiesces. Its request is sent at most retries + 1 times,
\* once per attempt of makeRequest and never again on a 401, and handling
\* an answer to it makes no new request: no logout() is called from there.
C26_LogoutQuiesces ==
  /\ [](\A i \in 1..Len(requests) :
          requests[i].endpoint = "logout"
          => (requests[i].attempt <= retries /\ ~requests[i].retry))
  /\ [][\A i \in 1..Len(requests) :
          LogoutAnswered(i) => Len(requests') = Len(requests)]_vars

\* C27: logout is final. From a logout() call on (each leaves its request
\* in the list) the store has no token and no user, is not authenticated
\* and has no refresh scheduled, until a login started after that call has
\* succeeded; responses to requests made before the call change nothing.
C27_LogoutFinal ==
  \A j \in 1..Len(requests) :
    (/\ requests[j].endpoint = "logout"
     /\ ~\E k \in (j + 1)..Len(requests) :
           requests[k].endpoint = "login" /\ requests[k].state = "resolved")
    => (/\ authToken = "null"
        /\ authUser = "null"
        /\ ~isAuthenticated
        /\ ~refreshTimeoutId)

\* C28: in every state of the auth store, after logins, logouts, refreshes
\* and rehydration, isAuthenticated is true exactly when the store holds a
\* token and a user.
C28_AuthenticatedIffToken ==
  isAuthenticated <=> (authToken # "null" /\ authUser # "null")


\* a login request is answered in this step
LoginAnswered == response'.n # response.n /\ response'.op = "login"

\* C29: a login request for an email that has at least MAX_LOGIN_ATTEMPTS
\* recorded failures, the last of them less than LOCKOUT_DURATION ago, is
\* answered 423 and changes neither the failed-attempt records nor the user
\* records; a login answered 200 leaves no failed-attempt record of its email.
C29_LockedLoginRefused ==
  /\ [][(LoginAnswered /\ isAccountLocked(loginAttempts, response'.email, clock))
          => (/\ response'.status = 423
              /\ loginAttempts' = loginAttempts
              /\ users' = users)]_vars
  /\ [][(LoginAnswered /\ response'.status = 200)
          => response'.email \notin DOMAIN loginAttempts']_vars


\* a request for a record is answered in this step
DecryptAnswered == response'.n # response.n /\ response'.op = "decrypt"

\* the request answered in this step comes from an authenticated user and
\* names a stored record
AuthenticatedForRecord ==
  /\ DecryptAnswered
  /\ authenticateToken(response'.authorization) = 0
  /\ response'.id \in DOMAIN encryptedRecords

\* C30: GET /api/decrypt/:id answers with decrypted content only when the
\* request comes from the authenticated user whose userId is the record's
\* userId, and the content is then the record's data; any other authenticated
\* user is answered 403 without content; the stored records do not change.
C30_OwnerOnly ==
  /\ [][(DecryptAnswered /\ response'.content # JUndefined)
          => (/\ AuthenticatedForRecord
              /\ encryptedRecords[response'.id].userId = response'.authorization.userId
              /\ response'.status = 200
              /\ mockEncrypt(response'.content) = encryptedRecords[response'.id].encryptedData)]_vars
  /\ [][(AuthenticatedForRecord
          /\ encryptedRecords[response'.id].userId # response'.authorization.userId)
          => (response'.status = 403 /\ response'.content = JUndefined)]_vars
  /\ [][DecryptAnswered => encryptedRecords' = encryptedRecords]_vars

\* a registered user who is not the owner has just been refused a record
\* whose owner has read it
C30_Witness ==
  /\ response.op = "decrypt"
  /\ response.status = 403
  /\ response.authorization \in IssuedTokens
  /\ response.id \in DOMAIN encryptedRecords
  /\ encryptedRecords[response.id].userId # response.authorization.userId
  /\ [action |-> "data_decrypt", userId |-> encryptedRecords[response.id].userId]
       \in DOMAIN auditLogs

=============================================================================
